---- MODULE Spec2Model ----
(***************************************************************************)
(* A model of loco-protocol-rs: the IO-free command sink and stream        *)
(* (src/src/command/client.rs), the IO-free client secure layer            *)
(* (src/src/secure/client.rs), the handshake of the sessions               *)
(* (src/src/secure/session), the stream adapters                           *)
(* (src/src/secure/stream.rs, src/src/io.rs), the packet writer            *)
(* (src/src/secure/layer.rs), the header, the command processor and the    *)
(* command codec (src/src/command) and the channel connection              *)
(* (src/src/network.rs).  Buffers are sequences of                         *)
(* bytes (0..255), heads are encoded and decoded byte by byte as bincode   *)
(* does (fixed-width little-endian integers, arrays without a length       *)
(* prefix).                                                                *)
(***************************************************************************)
EXTENDS Integers, Sequences, FiniteSets, TLC

VARIABLES
    scenario,              \* how the caller uses the library: "command" (a sink feeding a
                           \* stream), "loopback" (a secure layer reading what it wrote, as
                           \* in tests/secure.rs), "client" (a secure layer that sends its
                           \* handshake and packets to a peer and reads what the peer wrote),
                           \* "session" and "session_trait" (a client and a server session
                           \* doing their handshakes over one transport), "legacy_client" (a
                           \* SecureClientStream of io.rs writing), "adapter" and
                           \* "legacy_stream" (a SecureStream writing to a peer SecureStream),
                           \* "sink" (packets written through secure/layer.rs and
                           \* secure/stream/encode.rs), "header" (a Header and a
                           \* CommandBuilder), "processor" (a CommandProcessor writing and
                           \* a stream read back), "integration" (the example of lib.rs),
                           \* "network" (a ChannelConnection and its channels), "codec"
                           \* (two CommandCodecs over a non-blocking stream), "read_all"
                           \* (a CommandProcessor reading all the commands of a stream),
                           \* "failing_client" (a SecureClientStream whose stream fails),
                           \* "interrupted_write" (a SecureStream whose stream fails),
                           \* "packet_stream" (a SecureStream of secure/stream/mod.rs
                           \* reading packets) or "eof" (a SecureStream reading from a
                           \* stream that its peer closes)
    sink_write_buffer,     \* LocoSink.write_buffer
    stream_state,          \* LocoStream.state
    stream_read_buffer,    \* LocoStream.read_buffer
    layer_key,             \* LocoClientSecureLayer.key
    layer_read_state,      \* LocoClientSecureLayer.read_state
    layer_encrypt_buffer,  \* LocoClientSecureLayer.encrypt_buffer
    layer_read_buffer,     \* LocoClientSecureLayer.read_buffer
    layer_write_buffer,    \* LocoClientSecureLayer.write_buffer
    overflow_checks,       \* the build: "on" when integer overflow panics, "off" when it wraps
    usize_bytes,           \* the build: the bytes of a usize, 4 or 8
    crypto,                \* CryptoStore.aes_key of the writing endpoint's SecureStream
    transport,             \* the stream S the endpoints wrap (`local` in the tests): the
                           \* bytes that reached the reading end and were not yet read
    in_flight,             \* the bytes written to the stream that have not yet reached
                           \* the reading end
    current_handshake,     \* SecureServerSession.current_handshake
    current_read,          \* SecureStream.current_read (secure/stream.rs)
    read_buf,              \* SecureStream.read_buf (secure/stream.rs)
    current_write,         \* SecureStream.current_write (secure/stream.rs)
    read_pc,               \* where the caller of read_packet (secure/stream.rs) is:
                           \* "idle" outside a call, "loop" inside the call
    current_packet,        \* SecureStream.current_packet (secure/stream/mod.rs)
    legacy_handshaked,     \* SecureClientStream.handshaked (io.rs)
    legacy_current,        \* SecureStream.current (io.rs)
    legacy_read_buffer,    \* SecureStream.read_buffer (io.rs)
    legacy_decrypted_buffer, \* SecureStream.decrypted_buffer (io.rs)
    the_header,            \* the Header the caller holds (command/mod.rs)
    processor_current,     \* CommandProcessor.current of the reading processor
    processor_read_buffer, \* CommandProcessor.read_buffer of the reading processor
    server_handshaked,     \* SecureServerStream.handshaked (io.rs)
    server_handshake,      \* SecureServerStream.handshake (io.rs)
    server_crypto,         \* CryptoStore.aes_key of the SecureServerStream's SecureStream
    next_channel_id,       \* ChannelConnection.next_channel_id (network.rs)
    channel_map,           \* ChannelConnection.channel_map: for each attached id the
                           \* socket side of the pair, as [sender (the commands sent to
                           \* the user side), receiver (the commands the user side sent
                           \* that process() has not taken), connected (the user side is
                           \* not dropped)]
    command_channel,       \* ChannelConnection.command_channel
    current_command,       \* CommandCodec.current_command
    sent,                  \* history: the arguments of the producing calls, in call order
    moved,                 \* history: the number of bytes the caller moved out of the write buffer
    received,              \* history: the values returned by read() calls that returned Some
    lastRet                \* history: what the last operation returned, if it was a read()

commandVars == <<sink_write_buffer, stream_state, stream_read_buffer>>
historyVars == <<sent, moved, received, lastRet>>
layerVars == <<layer_key, layer_read_state, layer_encrypt_buffer, layer_read_buffer,
               layer_write_buffer, overflow_checks>>
sessionVars == <<usize_bytes, current_handshake>>
pipeVars == <<crypto, transport, in_flight>>
streamVars == <<current_read, read_buf, current_write, read_pc, current_packet>>
legacyVars == <<legacy_handshaked, legacy_current, legacy_read_buffer,
                legacy_decrypted_buffer>>
ioVars == <<sessionVars, pipeVars, streamVars, legacyVars>>
processorVars == <<processor_current, processor_read_buffer>>
serverVars == <<server_handshaked, server_handshake, server_crypto>>
networkVars == <<next_channel_id, channel_map, command_channel>>
appVars == <<the_header, processorVars, serverVars, networkVars, current_command>>
vars == <<scenario, commandVars, layerVars, ioVars, appVars, historyVars>>

(***************************************************************************)
(* Bounds of the model.                                                    *)
(***************************************************************************)
\* The number of send calls made on the command sink.
MaxSends == 2
\* The number of calls that produce bytes for the secure layer: send and
\* handshake calls on the layer, and deliveries of bytes written by a peer.
MaxOps == 3
\* The caller moves bytes between buffers in chunks of at most MaxChunk
\* bytes, or all the bytes there are.
MaxChunk == 2

(***************************************************************************)
(* Bytes and fixed-width little-endian integers (bincode's fixint          *)
(* encoding, used by every serialize_into / deserialize call).             *)
(***************************************************************************)
Byte == 0..255

\* v as w bytes, least significant byte first; a negative v gives its two's
\* complement, and the bytes above the w-th are cut off (an `as u32` cast).
RECURSIVE ToLeBytes(_, _)
ToLeBytes(v, w) ==
    IF w = 0 THEN <<>>
    ELSE <<v % 256>> \o ToLeBytes(v \div 256, w - 1)

\* The unsigned number held by a little-endian byte sequence.
RECURSIVE FromLeBytes(_)
FromLeBytes(b) ==
    IF b = <<>> THEN 0
    ELSE Head(b) + 256 * FromLeBytes(Tail(b))

\* The signed (two's complement) number held by a little-endian byte sequence.
RECURSIVE SignedFromLeBytes(_)
SignedFromLeBytes(b) ==
    IF Len(b) = 1 THEN (IF b[1] >= 128 THEN b[1] - 256 ELSE b[1])
    ELSE Head(b) + 256 * SignedFromLeBytes(Tail(b))

\* The largest integer of the model checker.  A u32 of 2^31 or more is held
\* as this number: like the u32 itself it is above the length of every
\* buffer of the model, and the model never encodes such a number again.
MaxInt == 2147483647

\* The u32 held by four little-endian bytes.
U32FromLeBytes(b) == IF b[4] >= 128 THEN MaxInt ELSE FromLeBytes(b)

\* n as u32: what is left of n in four bytes.
AsU32(n) == U32FromLeBytes(ToLeBytes(n, 4))

Take(s, n) == SubSeq(s, 1, n)
Drop(s, n) == SubSeq(s, n + 1, Len(s))
\* The sizes of the chunks the caller may move out of buffer b.
ChunkSizes(b) == {n \in 1..Len(b) : n <= MaxChunk \/ n = Len(b)}

IsPrefix(p, s) == Len(p) <= Len(s) /\ Take(s, Len(p)) = p

(***************************************************************************)
(* Command model: Header, Command, RawHeader (command/client.rs).          *)
(* A header is [id, status, method, data_type]; method is the 11-byte      *)
(* NUL-padded array.  id, status and data_type are the signed 32, 16 and  *)
(* 8 bit integers of the Header struct.                                    *)
(***************************************************************************)
\* Size of the serialized RawHeader: the 18 header bytes and the 4 size bytes.
HEAD_SIZE == 22

\* "TEST" NUL-padded to 11 bytes (tests/client.rs).
MethodTest == <<84, 69, 83, 84, 0, 0, 0, 0, 0, 0, 0>>
\* "ABCDEFGHIJK": 11 bytes, no trailing NUL.
MethodFull == <<65, 66, 67, 68, 69, 70, 71, 72, 73, 74, 75>>
\* The empty method name: all NUL.
MethodEmpty == <<0, 0, 0, 0, 0, 0, 0, 0, 0, 0, 0>>

\* The commands the caller sends: the command of tests/client.rs, a command
\* with an empty payload and multi-byte, negative header fields, and two more
\* whose payload bytes could be mistaken for a head.
Commands ==
    { [header |-> [id |-> 0, status |-> 1, method |-> MethodTest, data_type |-> 2],
       data |-> <<1, 2, 3>>],
      [header |-> [id |-> 258, status |-> -2, method |-> MethodFull, data_type |-> -1],
       data |-> <<>>],
      [header |-> [id |-> -16777216, status |-> 513, method |-> MethodEmpty, data_type |-> 127],
       data |-> <<0>>],
      [header |-> [id |-> 1, status |-> 0, method |-> MethodTest, data_type |-> 0],
       data |-> <<0, 0, 0, 0, 255>>] }

NoHeader == [id |-> 0, status |-> 0, method |-> MethodEmpty, data_type |-> 0]
NoCommand == [header |-> NoHeader, data |-> <<>>]

\* bincode::serialize of Header: id, status, method, data_type, in field order.
EncodeHeader(h) ==
    ToLeBytes(h.id, 4) \o ToLeBytes(h.status, 2) \o h.method \o ToLeBytes(h.data_type, 1)

\* A faulty variant of EncodeRawHeader: data_size is written before the
\* header.
EncodeRawHeader_sizeFirst(raw) ==
    ToLeBytes(raw.data_size, 4) \o EncodeHeader(raw.header)

\* bincode::serialize_into of RawHeader { header, data_size }.
EncodeRawHeader(raw) == EncodeHeader(raw.header) \o ToLeBytes(raw.data_size, 4)

\* A faulty variant of DecodeRawHeader: status is read as an unsigned number.
DecodeRawHeader_unsigned(buf) ==
    [header |-> [id |-> SignedFromLeBytes(SubSeq(buf, 1, 4)),
                 status |-> FromLeBytes(SubSeq(buf, 5, 6)),
                 method |-> SubSeq(buf, 7, 17),
                 data_type |-> SignedFromLeBytes(SubSeq(buf, 18, 18))],
     data_size |-> U32FromLeBytes(SubSeq(buf, 19, 22))]

\* bincode::deserialize::<RawHeader> of 22 bytes.
DecodeRawHeader(buf) ==
    [header |-> [id |-> SignedFromLeBytes(SubSeq(buf, 1, 4)),
                 status |-> SignedFromLeBytes(SubSeq(buf, 5, 6)),
                 method |-> SubSeq(buf, 7, 17),
                 data_type |-> SignedFromLeBytes(SubSeq(buf, 18, 18))],
     data_size |-> U32FromLeBytes(SubSeq(buf, 19, 22))]

\* StreamState: Pending, Header(RawHeader), Corrupted.
NoRawHeader == [header |-> NoHeader, data_size |-> 0]
StatePending == [tag |-> "Pending", raw |-> NoRawHeader]
StateHeader(raw) == [tag |-> "Header", raw |-> raw]
StateCorrupted == [tag |-> "Corrupted", raw |-> NoRawHeader]

\* What a read() call gives: None, Some(command), or a panic (no return).
RetNone == [kind |-> "none", value |-> NoCommand]
RetSome(c) == [kind |-> "some", value |-> c]
RetPanic == [kind |-> "panic", value |-> NoCommand]
\* The value of lastRet when the last operation was not a read.
NoRet == [kind |-> "-", value |-> NoCommand]

\* A faulty variant of LocoSink::send: the frame is put in front of the
\* buffered bytes.
LocoSink_send_front(write_buffer, command) ==
    EncodeRawHeader([header |-> command.header,
                     data_size |-> AsU32(Len(command.data))])
        \o command.data
        \o write_buffer

\* LocoSink::send: the serialized RawHeader, then the payload.
LocoSink_send(write_buffer, command) ==
    write_buffer
        \o EncodeRawHeader([header |-> command.header,
                            data_size |-> AsU32(Len(command.data))])
        \o command.data

\* A faulty variant of the Header arm: it waits for one byte more than the
\* payload has.
LocoStream_read_Header_oneMore(raw, read_buffer) ==
    IF Len(read_buffer) <= raw.data_size
    THEN [state |-> StateHeader(raw), read_buffer |-> read_buffer, ret |-> RetNone]
    ELSE [state |-> StatePending,
          read_buffer |-> Drop(read_buffer, raw.data_size),
          ret |-> RetSome([header |-> raw.header,
                           data |-> Take(read_buffer, raw.data_size)])]

\* A faulty variant of the Header arm: an incomplete payload is drained and
\* dropped.
LocoStream_read_Header_drainsPartial(raw, read_buffer) ==
    IF Len(read_buffer) < raw.data_size
    THEN [state |-> StateHeader(raw), read_buffer |-> <<>>, ret |-> RetNone]
    ELSE [state |-> StatePending,
          read_buffer |-> Drop(read_buffer, raw.data_size),
          ret |-> RetSome([header |-> raw.header,
                           data |-> Take(read_buffer, raw.data_size)])]

\* LocoStream::read, the StreamState::Header arm.
LocoStream_read_Header(raw, read_buffer) ==
    IF Len(read_buffer) < raw.data_size
    THEN [state |-> StateHeader(raw), read_buffer |-> read_buffer, ret |-> RetNone]
    ELSE [state |-> StatePending,
          read_buffer |-> Drop(read_buffer, raw.data_size),
          ret |-> RetSome([header |-> raw.header,
                           data |-> Take(read_buffer, raw.data_size)])]

\* A faulty variant of the Pending arm: it waits for 23 bytes.
LocoStream_read_Pending_oneMore(read_buffer) ==
    IF Len(read_buffer) <= HEAD_SIZE
    THEN [state |-> StatePending, read_buffer |-> read_buffer, ret |-> RetNone]
    ELSE LocoStream_read_Header(DecodeRawHeader(Take(read_buffer, HEAD_SIZE)),
                                Drop(read_buffer, HEAD_SIZE))

\* A faulty variant of the Pending arm: the early return does not write the
\* state back, which stays Corrupted.
LocoStream_read_Pending_noRestore(read_buffer) ==
    IF Len(read_buffer) < HEAD_SIZE
    THEN [state |-> StateCorrupted, read_buffer |-> read_buffer, ret |-> RetNone]
    ELSE LocoStream_read_Header(DecodeRawHeader(Take(read_buffer, HEAD_SIZE)),
                                Drop(read_buffer, HEAD_SIZE))

\* LocoStream::read, the StreamState::Pending arm; the loop then takes the
\* Header arm in the same call.
LocoStream_read_Pending(read_buffer) ==
    IF Len(read_buffer) < HEAD_SIZE
    THEN [state |-> StatePending, read_buffer |-> read_buffer, ret |-> RetNone]
    ELSE LocoStream_read_Header(DecodeRawHeader(Take(read_buffer, HEAD_SIZE)),
                                Drop(read_buffer, HEAD_SIZE))

\* LocoStream::read: the state is replaced by Corrupted and every arm that
\* returns writes the next state; the Corrupted arm is unreachable!().
LocoStream_read(state, read_buffer) ==
    CASE state.tag = "Pending" -> LocoStream_read_Pending(read_buffer)
      [] state.tag = "Header" -> LocoStream_read_Header(state.raw, read_buffer)
      [] OTHER -> [state |-> StateCorrupted, read_buffer |-> read_buffer, ret |-> RetPanic]


(***************************************************************************)
(* Secure layer model (secure/client.rs): AES-128 in CFB-128 mode, the     *)
(* secure RawHeader { size, iv }, and the handshake header.                *)
(***************************************************************************)
\* Size of the serialized secure RawHeader: 4 size bytes and the 16 iv bytes.
SECURE_HEAD_SIZE == 20
\* Bytes of an AES block, of the iv and of the key.
BLOCK_SIZE == 16
\* key_type of the handshake: RSA OAEP SHA1 MGF1 SHA1.
KEY_TYPE == 15
\* encrypt_type of the handshake: AES_CFB128 NOPADDING.
ENCRYPT_TYPE == 2

\* The all-zero key of tests/secure.rs (test_handshake) and another key.
KeyZero == [j \in 1..16 |-> 0]
KeyA == [j \in 1..16 |-> (37 * j + 5) % 256]
Keys == {KeyZero, KeyA}

\* The all-zero iv of tests/secure.rs (read_write_test) and another iv.
IvZero == [j \in 1..16 |-> 0]
IvA == [j \in 1..16 |-> 255 - 3 * j]

\* The packets the caller sends: the packet of tests/secure.rs, a packet
\* without data, and a packet whose data is longer than one cipher block.
Packets ==
    { [iv |-> IvZero, data |-> <<0, 1, 2>>],
      [iv |-> IvA, data |-> <<>>],
      [iv |-> IvA, data |-> [j \in 1..18 |-> (7 * j) % 256]] }

NoPacket == [iv |-> IvZero, data |-> <<>>]

\* The exclusive or of two bytes, bit by bit.
RECURSIVE XorBits(_, _, _)
XorBits(a, b, n) ==
    IF n = 0 THEN 0
    ELSE (((a % 2) + (b % 2)) % 2) + 2 * XorBits(a \div 2, b \div 2, n - 1)

XorTable == [a \in Byte |-> [b \in Byte |-> XorBits(a, b, 8)]]

Xor(a, b) == XorTable[a][b]

\* data xor the first Len(data) bytes of keystream.
XorSeq(data, keystream) == [j \in 1..Len(data) |-> Xor(data[j], keystream[j])]

\* The AES-128 block encryption of the aes crate, as a keyed function from
\* a 16-byte block to a 16-byte block (the cipher itself is not modelled).
AesEncryptBlock(key, block) ==
    [j \in 1..BLOCK_SIZE |->
        (3 * key[j] + 5 * block[j] + 7 * block[(j % BLOCK_SIZE) + 1]
           + key[(j % BLOCK_SIZE) + 1] * block[j] + 11 * j + 1) % 256]

\* cfb_mode::Encryptor::encrypt: each block of ciphertext is the plaintext
\* xor the encryption of the previous ciphertext block (first the iv).
RECURSIVE Aes128CfbEnc(_, _, _)
Aes128CfbEnc(key, iv, data) ==
    IF data = <<>> THEN <<>>
    ELSE LET n == IF Len(data) < BLOCK_SIZE THEN Len(data) ELSE BLOCK_SIZE
             c == XorSeq(Take(data, n), AesEncryptBlock(key, iv))
         IN  IF n < BLOCK_SIZE THEN c
             ELSE c \o Aes128CfbEnc(key, c, Drop(data, n))

\* A faulty variant of the decryptor: the plaintext block, not the
\* ciphertext block, is fed to the next block.
RECURSIVE Aes128CfbDec_plainFeedback(_, _, _)
Aes128CfbDec_plainFeedback(key, iv, data) ==
    IF data = <<>> THEN <<>>
    ELSE LET n == IF Len(data) < BLOCK_SIZE THEN Len(data) ELSE BLOCK_SIZE
             p == XorSeq(Take(data, n), AesEncryptBlock(key, iv))
         IN  IF n < BLOCK_SIZE THEN p
             ELSE p \o Aes128CfbDec_plainFeedback(key, p, Drop(data, n))

\* cfb_mode::Decryptor::decrypt: each block of plaintext is the ciphertext
\* xor the encryption of the previous ciphertext block (first the iv).
RECURSIVE Aes128CfbDec(_, _, _)
Aes128CfbDec(key, iv, data) ==
    IF data = <<>> THEN <<>>
    ELSE LET n == IF Len(data) < BLOCK_SIZE THEN Len(data) ELSE BLOCK_SIZE
             c == Take(data, n)
             p == XorSeq(c, AesEncryptBlock(key, iv))
         IN  IF n < BLOCK_SIZE THEN p
             ELSE p \o Aes128CfbDec(key, c, Drop(data, n))

\* A faulty variant of the secure header: the iv is written before the size.
EncodeSecureRawHeader_ivFirst(raw) == raw.iv \o ToLeBytes(raw.size, 4)

\* bincode::serialize_into of the secure RawHeader { size, iv }.
EncodeSecureRawHeader(raw) == ToLeBytes(raw.size, 4) \o raw.iv

\* bincode::deserialize::<RawHeader> of 20 bytes.
DecodeSecureRawHeader(buf) ==
    [size |-> U32FromLeBytes(SubSeq(buf, 1, 4)), iv |-> SubSeq(buf, 5, 20)]

\* ReadState: Pending, Header(RawHeader), Corrupted.
NoSecureRawHeader == [size |-> 0, iv |-> IvZero]
ReadPending == [tag |-> "Pending", raw |-> NoSecureRawHeader]
ReadHeader(raw) == [tag |-> "Header", raw |-> raw]
ReadCorrupted == [tag |-> "Corrupted", raw |-> NoSecureRawHeader]

\* LocoClientSecureLayer::send: the data is appended to encrypt_buffer and
\* encrypted there; the header and the drained encrypt_buffer are appended
\* to write_buffer.
LocoClientSecureLayer_send(key, encrypt_buffer, write_buffer, packet) ==
    LET encrypted_data == Aes128CfbEnc(key, packet.iv, encrypt_buffer \o packet.data)
    IN  [write_buffer |->
             write_buffer
                 \o EncodeSecureRawHeader([size |-> AsU32(16 + AsU32(Len(encrypted_data))),
                                           iv |-> packet.iv])
                 \o encrypted_data,
         encrypt_buffer |-> <<>>]

\* A faulty variant of the Header arm: it waits for one byte more than the
\* ciphertext has.
LocoClientSecureLayer_read_Header_oneMore(key, raw, read_buffer, checks) ==
    LET size == raw.size - BLOCK_SIZE
    IN  IF raw.size < BLOCK_SIZE /\ checks
        THEN [state |-> ReadCorrupted, read_buffer |-> read_buffer, ret |-> RetPanic,
              underflow |-> TRUE]
        ELSE IF raw.size < BLOCK_SIZE \/ Len(read_buffer) <= size
        THEN [state |-> ReadHeader(raw), read_buffer |-> read_buffer, ret |-> RetNone,
              underflow |-> raw.size < BLOCK_SIZE]
        ELSE [state |-> ReadPending,
              read_buffer |-> Drop(read_buffer, size),
              ret |-> RetSome([iv |-> raw.iv,
                               data |-> Aes128CfbDec(key, raw.iv, Take(read_buffer, size))]),
              underflow |-> FALSE]

\* A faulty variant of the Header arm: the 16 iv bytes are not taken off the
\* announced size.
LocoClientSecureLayer_read_Header_sizeWithIv(key, raw, read_buffer, checks) ==
    IF Len(read_buffer) < raw.size
    THEN [state |-> ReadHeader(raw), read_buffer |-> read_buffer, ret |-> RetNone,
          underflow |-> FALSE]
    ELSE [state |-> ReadPending,
          read_buffer |-> Drop(read_buffer, raw.size),
          ret |-> RetSome([iv |-> raw.iv,
                           data |-> Aes128CfbDec(key, raw.iv, Take(read_buffer, raw.size))]),
          underflow |-> FALSE]

\* LocoClientSecureLayer::read, the ReadState::Header arm.  size is
\* raw_header.size as usize - 16: when raw_header.size is below 16 the
\* subtraction panics in a build with overflow checks, leaving read_state
\* Corrupted, and wraps to 2^64 - 16 + raw_header.size otherwise, which no
\* buffer length reaches.  underflow tells that this happened.
LocoClientSecureLayer_read_Header(key, raw, read_buffer, checks) ==
    LET size == raw.size - BLOCK_SIZE
    IN  IF raw.size < BLOCK_SIZE /\ checks
        THEN [state |-> ReadCorrupted, read_buffer |-> read_buffer, ret |-> RetPanic,
              underflow |-> TRUE]
        ELSE IF raw.size < BLOCK_SIZE \/ Len(read_buffer) < size
        THEN [state |-> ReadHeader(raw), read_buffer |-> read_buffer, ret |-> RetNone,
              underflow |-> raw.size < BLOCK_SIZE]
        ELSE [state |-> ReadPending,
              read_buffer |-> Drop(read_buffer, size),
              ret |-> RetSome([iv |-> raw.iv,
                               data |-> Aes128CfbDec(key, raw.iv, Take(read_buffer, size))]),
              underflow |-> FALSE]

\* LocoClientSecureLayer::read, the ReadState::Pending arm; the loop then
\* takes the Header arm in the same call.
LocoClientSecureLayer_read_Pending(key, read_buffer, checks) ==
    IF Len(read_buffer) < SECURE_HEAD_SIZE
    THEN [state |-> ReadPending, read_buffer |-> read_buffer, ret |-> RetNone,
          underflow |-> FALSE]
    ELSE LocoClientSecureLayer_read_Header(
             key, DecodeSecureRawHeader(Take(read_buffer, SECURE_HEAD_SIZE)),
             Drop(read_buffer, SECURE_HEAD_SIZE), checks)

\* LocoClientSecureLayer::read: the state is replaced by Corrupted and every
\* arm that returns writes the next state; the Corrupted arm is unreachable!().
LocoClientSecureLayer_read(key, state, read_buffer, checks) ==
    CASE state.tag = "Pending" -> LocoClientSecureLayer_read_Pending(key, read_buffer, checks)
      [] state.tag = "Header" ->
             LocoClientSecureLayer_read_Header(key, state.raw, read_buffer, checks)
      [] OTHER -> [state |-> ReadCorrupted, read_buffer |-> read_buffer, ret |-> RetPanic,
                   underflow |-> FALSE]

\* The RSA public keys the caller hands to handshake: size is the byte
\* length of the modulus (a 512 bit key).
RsaPublicKeys == { [id |-> 1, size |-> 64] }

\* The random seeds OAEP draws from thread_rng.
OaepSeeds == {3, 200}

\* The OAEP mask byte at position j.
OaepMask(rsa_key, seed, j) == (29 * rsa_key.id + 17 * seed + 7 * j) % 256

\* RsaPublicKey::encrypt with Oaep::new_with_mgf_hash::<Sha1, Sha1>: as many
\* bytes as the modulus has, depending on the key, the message and the seed
\* (RSA itself is not modelled: the message is masked, the seed is carried
\* at position 17 and the rest is padding the owner of the key can verify).
RsaOaepEncrypt(rsa_key, seed, message) ==
    [j \in 1..rsa_key.size |->
        IF j <= Len(message) THEN (message[j] + OaepMask(rsa_key, seed, j)) % 256
        ELSE IF j = Len(message) + 1 THEN seed
        ELSE OaepMask(rsa_key, seed, j)]

\* bincode::serialize_into of RawHandshakeHeader { encrypted_key_size,
\* key_type, encrypt_type }.
EncodeRawHandshakeHeader(h) ==
    ToLeBytes(h.encrypted_key_size, 4) \o ToLeBytes(h.key_type, 4)
        \o ToLeBytes(h.encrypt_type, 4)

\* A faulty variant of handshake: the bytes buffered for writing are replaced.
LocoClientSecureLayer_handshake_overwrite(key, write_buffer, rsa_key, seed) ==
    LET encrypted_key == RsaOaepEncrypt(rsa_key, seed, key)
    IN  EncodeRawHandshakeHeader([encrypted_key_size |-> AsU32(Len(encrypted_key)),
                                  key_type |-> KEY_TYPE,
                                  encrypt_type |-> ENCRYPT_TYPE])
            \o encrypted_key

\* LocoClientSecureLayer::handshake: the header, then the encrypted key.
LocoClientSecureLayer_handshake(key, write_buffer, rsa_key, seed) ==
    LET encrypted_key == RsaOaepEncrypt(rsa_key, seed, key)
    IN  write_buffer
            \o EncodeRawHandshakeHeader([encrypted_key_size |-> AsU32(Len(encrypted_key)),
                                         key_type |-> KEY_TYPE,
                                         encrypt_type |-> ENCRYPT_TYPE])
            \o encrypted_key

\* Option::None of current_handshake, current_read and current.
None == [tag |-> "None"]

\* No SecureStream of secure/stream.rs is reading.
StreamIdle ==
    /\ current_read = None
    /\ read_buf = <<>>
    /\ current_write = None
    /\ read_pc = "idle"
    /\ current_packet = None

\* No stream of io.rs is constructed.
LegacyIdle ==
    /\ legacy_handshaked = FALSE
    /\ legacy_current = None
    /\ legacy_read_buffer = <<>>
    /\ legacy_decrypted_buffer = <<>>

\* The sessions and stream adapters while the caller drives the IO-free
\* sink, stream or layer: not constructed, their fields hold no data.
IoIdle ==
    /\ usize_bytes = 8
    /\ crypto = <<>>
    /\ transport = <<>>
    /\ in_flight = <<>>
    /\ current_handshake = None
    /\ StreamIdle
    /\ LegacyIdle

\* The secure layer while the caller drives the command sink and stream:
\* not constructed, its fields hold no data.
LayerIdle ==
    /\ layer_key = <<>>
    /\ layer_read_state = ReadPending
    /\ layer_encrypt_buffer = <<>>
    /\ layer_read_buffer = <<>>
    /\ layer_write_buffer = <<>>
    /\ overflow_checks = "undecided"

\* HashMap::new().
EmptyMap == [k \in {} |-> 0]

\* No ChannelConnection is constructed.
NetworkIdle ==
    /\ next_channel_id = 0
    /\ channel_map = EmptyMap
    /\ command_channel = EmptyMap

\* A Header of command/mod.rs with every field zero.
ZeroHeader ==
    [id |-> 0, status |-> 0, name |-> MethodEmpty, data_type |-> 0, data_size |-> 0]

\* The objects of the command module (command/mod.rs, command/processor.rs,
\* command/codec, network.rs) while the caller drives something else: not
\* constructed, their fields hold no data.
AppIdle ==
    /\ the_header = ZeroHeader
    /\ processor_current = None
    /\ processor_read_buffer = <<>>
    /\ server_handshaked = FALSE
    /\ server_handshake = None
    /\ server_crypto = <<>>
    /\ NetworkIdle
    /\ current_command = None

(***************************************************************************)
(* The operations on the command sink and stream.                          *)
(***************************************************************************)
\* LocoSink::new and LocoStream::new.
InitCommand ==
    /\ scenario = "command"
    /\ AppIdle
    /\ sink_write_buffer = <<>>
    /\ stream_state = StatePending
    /\ stream_read_buffer = <<>>
    /\ LayerIdle
    /\ IoIdle
    /\ sent = <<>>
    /\ moved = 0
    /\ received = <<>>
    /\ lastRet = NoRet

\* sink.send(command)
Send(command) ==
    /\ scenario = "command"
    /\ Len(sent) < MaxSends
    /\ sink_write_buffer' = LocoSink_send(sink_write_buffer, command)
    /\ sent' = Append(sent, command)
    /\ lastRet' = NoRet
    /\ UNCHANGED <<scenario, appVars, ioVars, stream_state, stream_read_buffer, layerVars, moved, received>>

\* The caller moves the first n bytes of the sink's write buffer to the
\* stream's read buffer (the swap of tests/client.rs moves all of them).
Transfer(n) ==
    /\ scenario = "command"
    /\ n <= Len(sink_write_buffer)
    /\ stream_read_buffer' = stream_read_buffer \o Take(sink_write_buffer, n)
    /\ sink_write_buffer' = Drop(sink_write_buffer, n)
    /\ moved' = moved + n
    /\ lastRet' = NoRet
    /\ UNCHANGED <<scenario, appVars, ioVars, stream_state, layerVars, sent, received>>

\* stream.read()
Read ==
    /\ scenario = "command"
    /\ LET r == LocoStream_read(stream_state, stream_read_buffer)
       IN /\ stream_state' = r.state
          /\ stream_read_buffer' = r.read_buffer
          /\ lastRet' = r.ret
          /\ received' = IF r.ret.kind = "some" THEN Append(received, r.ret.value)
                         ELSE received
    /\ UNCHANGED <<scenario, appVars, ioVars, sink_write_buffer, layerVars, sent, moved>>

NextCommand ==
    \/ \E command \in Commands : Send(command)
    \/ \E n \in ChunkSizes(sink_write_buffer) : Transfer(n)
    \/ Read

SpecCommand == InitCommand /\ [][NextCommand]_vars

(***************************************************************************)
(* The operations on the client secure layer.                              *)
(***************************************************************************)
\* The sink and stream while the caller drives the secure layer.
CommandIdle ==
    /\ sink_write_buffer = <<>>
    /\ stream_state = StatePending
    /\ stream_read_buffer = <<>>

\* LocoClientSecureLayer::new(encrypt_key).  Whether the build checks integer
\* overflow is decided when it first matters.
InitSecure ==
    /\ scenario \in {"loopback", "client"}
    /\ AppIdle
    /\ CommandIdle
    /\ IoIdle
    /\ layer_key \in Keys
    /\ layer_read_state = ReadPending
    /\ layer_encrypt_buffer = <<>>
    /\ layer_read_buffer = <<>>
    /\ layer_write_buffer = <<>>
    /\ overflow_checks = "undecided"
    /\ sent = <<>>
    /\ moved = 0
    /\ received = <<>>
    /\ lastRet = NoRet

\* layer.send(packet)
Layer_send(packet) ==
    /\ scenario \in {"loopback", "client"}
    /\ Len(sent) < MaxOps
    /\ LET r == LocoClientSecureLayer_send(layer_key, layer_encrypt_buffer,
                                           layer_write_buffer, packet)
       IN /\ layer_write_buffer' = r.write_buffer
          /\ layer_encrypt_buffer' = r.encrypt_buffer
    /\ sent' = Append(sent, [kind |-> "packet", packet |-> packet])
    /\ lastRet' = NoRet
    /\ UNCHANGED <<scenario, appVars, ioVars, commandVars, layer_key, layer_read_state, layer_read_buffer,
                   overflow_checks, moved, received>>

\* layer.handshake(&rsa_key), OAEP drawing seed from the random generator.
Layer_handshake(rsa_key, seed) ==
    /\ scenario = "client"
    /\ Len(sent) < MaxOps
    /\ layer_write_buffer' =
           LocoClientSecureLayer_handshake(layer_key, layer_write_buffer, rsa_key, seed)
    /\ sent' = Append(sent, [kind |-> "handshake", packet |-> NoPacket])
    /\ lastRet' = NoRet
    /\ UNCHANGED <<scenario, appVars, ioVars, commandVars, layer_key, layer_read_state, layer_encrypt_buffer,
                   layer_read_buffer, overflow_checks, moved, received>>

\* The caller moves the first n bytes of the layer's write buffer to its
\* read buffer (the swap of tests/secure.rs moves all of them).
Layer_transfer(n) ==
    /\ scenario = "loopback"
    /\ n <= Len(layer_write_buffer)
    /\ layer_read_buffer' = layer_read_buffer \o Take(layer_write_buffer, n)
    /\ layer_write_buffer' = Drop(layer_write_buffer, n)
    /\ moved' = moved + n
    /\ lastRet' = NoRet
    /\ UNCHANGED <<scenario, appVars, ioVars, commandVars, layer_key, layer_read_state, layer_encrypt_buffer,
                   overflow_checks, sent, received>>

\* Heads a peer may write: one announcing size = 16 (no data) and one
\* announcing a size below 16.
PeerHeads ==
    { EncodeSecureRawHeader([size |-> 16, iv |-> IvA]),
      EncodeSecureRawHeader([size |-> 5, iv |-> IvZero]) }

\* The caller fills the read buffer with bytes received from the peer.  (What
\* the caller does with write_buffer in this scenario is left out: no
\* operation of the layer reads write_buffer.)
Layer_fill(bytes) ==
    /\ scenario = "client"
    /\ Len(sent) < MaxOps
    /\ layer_read_buffer' = layer_read_buffer \o bytes
    /\ sent' = Append(sent, [kind |-> "peer", packet |-> NoPacket])
    /\ lastRet' = NoRet
    /\ UNCHANGED <<scenario, appVars, ioVars, commandVars, layer_key, layer_read_state, layer_encrypt_buffer,
                   layer_write_buffer, overflow_checks, moved, received>>

\* layer.read(), in a build that checks integer overflow or in one that does
\* not: the same build as in every earlier call where it mattered.
Layer_read(checks) ==
    /\ scenario \in {"loopback", "client"}
    /\ overflow_checks \in {"undecided", IF checks THEN "on" ELSE "off"}
    /\ LET r == LocoClientSecureLayer_read(layer_key, layer_read_state,
                                           layer_read_buffer, checks)
       IN /\ layer_read_state' = r.state
          /\ layer_read_buffer' = r.read_buffer
          /\ lastRet' = r.ret
          /\ received' = IF r.ret.kind = "some" THEN Append(received, r.ret.value)
                         ELSE received
          /\ overflow_checks' = IF r.underflow THEN (IF checks THEN "on" ELSE "off")
                                ELSE overflow_checks
    /\ UNCHANGED <<scenario, appVars, ioVars, commandVars, layer_key, layer_encrypt_buffer,
                   layer_write_buffer, sent, moved>>

NextSecure ==
    \/ \E packet \in Packets : Layer_send(packet)
    \/ \E rsa_key \in RsaPublicKeys, seed \in OaepSeeds : Layer_handshake(rsa_key, seed)
    \/ \E n \in ChunkSizes(layer_write_buffer) : Layer_transfer(n)
    \/ \E bytes \in PeerHeads : Layer_fill(bytes)
    \/ \E checks \in BOOLEAN : Layer_read(checks)

SpecSecure == InitSecure /\ [][NextSecure]_vars

(***************************************************************************)
(* The handshake of the sessions (secure/session).                         *)
(***************************************************************************)
SECURE_HANDSHAKE_HEAD_SIZE == 12

\* KeyEncryptType::RsaOaepSha1Mgf1Sha1 of secure/crypto.rs
RsaOaepSha1Mgf1Sha1 == 15

\* EncryptType::AesCfb128
AesCfb128 == 2

\* bincode::serialize of SecureHandshakeHeader { key_encrypt_type,
\* encrypt_type } of secure/mod.rs.
EncodeSecureHandshakeHeader(h) ==
    ToLeBytes(h.key_encrypt_type, 4) \o ToLeBytes(h.encrypt_type, 4)

\* to_handshake_packet: encrypted_key.len().to_le_bytes() is as wide as the
\* build's usize, then the header, then the encrypted key.
to_handshake_packet(usize, aes_key, key, seed) ==
    LET encrypted_key == RsaOaepEncrypt(key, seed, aes_key)
    IN  ToLeBytes(Len(encrypted_key), usize)
            \o EncodeSecureHandshakeHeader([key_encrypt_type |-> RsaOaepSha1Mgf1Sha1,
                                            encrypt_type |-> AesCfb128])
            \o encrypted_key

\* SecureClientSession::handshake of secure/session.rs, which consumes the
\* session: the serialized SecureHandshakeHeader { encrypted_key_len,
\* key_encrypt_type, encrypt_type }, then the encrypted key.
SecureSession_handshake(aes_key, key, seed) ==
    LET encrypted_key == RsaOaepEncrypt(key, seed, aes_key)
    IN  ToLeBytes(AsU32(Len(encrypted_key)), 4)
            \o ToLeBytes(RsaOaepSha1Mgf1Sha1, 4) \o ToLeBytes(AesCfb128, 4)
            \o encrypted_key

\* RsaPrivateKey::decrypt with PaddingScheme::new_oaep::<Sha1>, by the owner
\* of the key: the padding is verified, and the 16 byte message is unmasked.
RsaOaepDecrypt(rsa_key, encrypted) ==
    IF /\ Len(encrypted) = rsa_key.size
       /\ \A j \in 18..rsa_key.size :
              encrypted[j] = OaepMask(rsa_key, encrypted[17], j)
    THEN [ok |-> TRUE,
          message |-> [j \in 1..16 |->
                          (encrypted[j] + 256 - OaepMask(rsa_key, encrypted[17], j)) % 256]]
    ELSE [ok |-> FALSE, message |-> <<>>]

\* Read::read_exact(n bytes): with fewer than n bytes before the end of the
\* stream it fails, and the stream has then kept or lost the bytes it had,
\* depending on the stream and on the version of the standard library.
ReadExact(stream, n) ==
    IF Len(stream) >= n
    THEN { [ok |-> TRUE, buf |-> Take(stream, n), stream |-> Drop(stream, n)] }
    ELSE { [ok |-> FALSE, buf |-> <<>>, stream |-> rest] : rest \in {stream, <<>>} }

\* decode_handshake_head: the key size from the first four bytes, the header
\* from the next eight.  encrypted_key, a zeroed buffer of key_size bytes, is
\* kept as its length until it is filled.
decode_handshake_head(buf) ==
    [tag |-> "Some",
     header |-> [key_encrypt_type |-> U32FromLeBytes(SubSeq(buf, 5, 8)),
                 encrypt_type |-> U32FromLeBytes(SubSeq(buf, 9, 12))],
     key_size |-> U32FromLeBytes(SubSeq(buf, 1, 4))]

RetOk(v) == [kind |-> "ok", value |-> v]
RetErr(e) == [kind |-> "err", value |-> e]

\* SecureServerSession::handshake(stream): the outcomes of one call, each the
\* session's current_handshake, the stream and the value returned.  The key
\* of the returned CryptoStore is `let key = [0_u8; 16]`: the result of
\* decrypt is only tested for an error.
SecureServerSession_handshake(key, handshake_opt, stream) ==
    LET heads ==
            IF handshake_opt.tag = "Some"
            THEN { [ok |-> TRUE, handshake |-> handshake_opt, stream |-> stream] }
            ELSE { [ok |-> r.ok,
                    handshake |-> IF r.ok THEN decode_handshake_head(r.buf) ELSE None,
                    stream |-> r.stream] : r \in ReadExact(stream, SECURE_HANDSHAKE_HEAD_SIZE) }
        After(h) ==
            IF ~h.ok
            THEN { [current_handshake |-> None, stream |-> h.stream, ret |-> RetErr("Io")] }
            ELSE { IF ~k.ok
                   THEN [current_handshake |-> h.handshake, stream |-> k.stream,
                         ret |-> RetErr("Io")]
                   ELSE LET decrypted == RsaOaepDecrypt(key, k.buf)
                        IN  [current_handshake |-> None, stream |-> k.stream,
                             ret |-> IF decrypted.ok
                                     THEN RetOk([j \in 1..16 |-> 0])
                                     ELSE RetErr("CorruptedData")]
                   : k \in ReadExact(h.stream, h.handshake.key_size) }
    IN  UNION { After(h) : h \in heads }

\* SecureStream::new(CryptoStore, stream) at the client and
\* SecureServerSession::new(private key) at the server, over one transport.
\* "session" is secure/session/mod.rs, "session_trait" is the SecureSession
\* trait of secure/session.rs, whose handshake consumes the session.
InitSession ==
    /\ scenario \in {"session", "session_trait"}
    /\ AppIdle
    /\ CommandIdle
    /\ LayerIdle
    /\ usize_bytes \in {4, 8}
    /\ crypto \in Keys
    /\ transport = <<>>
    /\ in_flight = <<>>
    /\ current_handshake = None
    /\ StreamIdle
    /\ LegacyIdle
    /\ sent = <<>>
    /\ moved = 0
    /\ received = <<>>
    /\ lastRet = NoRet

\* SecureClientSession::new(key).handshake(&mut secure_stream)
Session_client_handshake(key, seed) ==
    /\ scenario = "session"
    /\ Len(sent) < MaxOps
    /\ transport' = transport \o to_handshake_packet(usize_bytes, crypto, key, seed)
    /\ sent' = Append(sent, [kind |-> "handshake", key |-> key])
    /\ lastRet' = NoRet
    /\ UNCHANGED <<scenario, appVars, commandVars, layerVars, sessionVars, crypto, in_flight,
                   streamVars, legacyVars, moved, received>>

\* SecureClientSession::new(key, crypto, stream).handshake() of
\* secure/session.rs: the session and its stream are consumed.
SessionTrait_client_handshake(key, seed) ==
    /\ scenario = "session_trait"
    /\ sent = <<>>
    /\ transport' = transport \o SecureSession_handshake(crypto, key, seed)
    /\ sent' = Append(sent, [kind |-> "handshake", key |-> key])
    /\ lastRet' = NoRet
    /\ UNCHANGED <<scenario, appVars, commandVars, layerVars, sessionVars, crypto, in_flight,
                   streamVars, legacyVars, moved, received>>

\* server_session.handshake(&mut stream) with the private key of `key`; the
\* session of secure/session.rs reads the same twelve bytes and the key the
\* same way, and is consumed by its first handshake.
Session_server_handshake(key) ==
    /\ scenario \in {"session", "session_trait"}
    /\ Len(received) < MaxOps
    /\ scenario = "session_trait" => received = <<>>
    /\ \E o \in SecureServerSession_handshake(key, current_handshake, transport) :
          /\ current_handshake' = o.current_handshake
          /\ transport' = o.stream
          /\ moved' = moved + (Len(transport) - Len(o.stream))
          /\ lastRet' = o.ret
          /\ received' = Append(received, o.ret)
    /\ UNCHANGED <<scenario, appVars, commandVars, layerVars, usize_bytes, crypto, in_flight,
                   streamVars, legacyVars, sent>>

NextSession ==
    \/ \E key \in RsaPublicKeys, seed \in OaepSeeds : Session_client_handshake(key, seed)
    \/ \E key \in RsaPublicKeys, seed \in OaepSeeds : SessionTrait_client_handshake(key, seed)
    \/ \E key \in RsaPublicKeys : Session_server_handshake(key)

SpecSession == InitSession /\ [][NextSession]_vars

(***************************************************************************)
(* The streams of io.rs, which use the definitions of secure.rs.           *)
(***************************************************************************)
\* KeyEncryptType::RsaOaepSha1Mgf1Sha1 of secure.rs
Legacy_RsaOaepSha1Mgf1Sha1 == 12

\* The length of the buffer CryptoStore::encrypt_key of secure.rs returns.
LegacyKeyLen == 256

\* The buffers the caller writes: the buffer of tests/secure_stream_test.rs,
\* an empty one and another one.
Bufs == { <<1, 2, 3, 4>>, <<>>, <<7, 8>> }

\* The IVs the random generator yields.
Ivs == {IvZero, IvA}

\* CryptoStore::encrypt_key of secure.rs: public_encrypt into a buffer of 256
\* zero bytes, which is returned whole.
Legacy_encrypt_key(aes_key, key, seed) ==
    LET encrypted == RsaOaepEncrypt(key, seed, aes_key)
    IN  [j \in 1..LegacyKeyLen |-> IF j <= Len(encrypted) THEN encrypted[j] ELSE 0]

\* write_handshake of secure.rs: the serialized SecureHandshakeHeader
\* { encrypted_key_len, key_encrypt_type, encrypt_type }, then the key.
write_handshake(aes_key, key_encrypt_type, encrypt_type, key, seed) ==
    LET encrypted == Legacy_encrypt_key(aes_key, key, seed)
    IN  ToLeBytes(AsU32(Len(encrypted)), 4) \o ToLeBytes(key_encrypt_type, 4)
            \o ToLeBytes(encrypt_type, 4) \o encrypted

\* SecureStream::write of io.rs with the IV random_iv yields: the serialized
\* SecureHeader { data_size, iv }, then the encrypted data; data.len() is
\* returned.
Legacy_SecureStream_write(aes_key, buf, iv) ==
    LET data == Aes128CfbEnc(aes_key, iv, buf)
    IN  [bytes |-> ToLeBytes(AsU32(Len(data)) + Len(iv), 4) \o iv \o data,
         ret |-> Len(data)]

\* SecureClientStream::write: the handshake before the first packet.
SecureClientStream_write(is_handshaked, aes_key, key, seed, buf, iv) ==
    LET handshake ==
            IF ~is_handshaked
            THEN write_handshake(aes_key, Legacy_RsaOaepSha1Mgf1Sha1, AesCfb128, key, seed)
            ELSE <<>>
        inner == Legacy_SecureStream_write(aes_key, buf, iv)
    IN  [bytes |-> handshake \o inner.bytes, handshaked |-> TRUE, ret |-> inner.ret]

\* SecureClientStream::new(crypto, key, stream)
InitLegacyClient ==
    /\ scenario = "legacy_client"
    /\ AppIdle
    /\ CommandIdle
    /\ LayerIdle
    /\ usize_bytes = 8
    /\ crypto \in Keys
    /\ transport = <<>>
    /\ in_flight = <<>>
    /\ current_handshake = None
    /\ StreamIdle
    /\ LegacyIdle
    /\ sent = <<>>
    /\ moved = 0
    /\ received = <<>>
    /\ lastRet = NoRet

\* client_stream.write(buf), the stream taking all the bytes.
LegacyClient_write(key, seed, buf, iv) ==
    /\ scenario = "legacy_client"
    /\ Len(sent) < MaxOps
    /\ LET r == SecureClientStream_write(legacy_handshaked, crypto, key, seed, buf, iv)
       IN /\ in_flight' = in_flight \o r.bytes
          /\ legacy_handshaked' = r.handshaked
          /\ lastRet' = RetOk(r.ret)
    /\ sent' = Append(sent, [kind |-> IF legacy_handshaked THEN "write" ELSE "handshake_write",
                             data |-> buf, iv |-> iv])
    /\ UNCHANGED <<scenario, appVars, commandVars, layerVars, sessionVars, crypto, transport,
                   streamVars, legacy_current, legacy_read_buffer,
                   legacy_decrypted_buffer, moved, received>>

NextLegacyClient ==
    \E key \in RsaPublicKeys, seed \in OaepSeeds, buf \in Bufs, iv \in Ivs :
        LegacyClient_write(key, seed, buf, iv)

SpecLegacyClient == InitLegacyClient /\ [][NextLegacyClient]_vars

(***************************************************************************)
(* The stream adapters: SecureStream of secure/stream.rs and of io.rs,     *)
(* each writing to a peer of its kind that holds the same key.             *)
(***************************************************************************)
SECURE_HEADER_SIZE == 16

\* The lengths of the buffers the caller reads into.
ReadLens == {1, 4}

\* The lengths the front slice of read_buf (a VecDeque) may have, which
\* depends on where the standard library placed its elements.
FrontLens == {2, 4}

Min(a, b) == IF a <= b THEN a ELSE b

\* ReadStreamState: Head(read, buf) and Data(header, read, buf), the buffers
\* kept as the bytes read so far, and the length of the data buffer.
ReadHead(buf) == [tag |-> "Head", iv |-> IvZero, size |-> SECURE_HEAD_SIZE, buf |-> buf]
ReadData(iv, size, buf) == [tag |-> "Data", iv |-> iv, size |-> size, buf |-> buf]

\* A faulty variant of write_packet: the size field is the length of the data.
SecureStream_write_packet_sizeOfData(aes_key, buf, iv) ==
    [bytes |-> ToLeBytes(AsU32(Len(buf)), 4) \o iv \o Aes128CfbEnc(aes_key, iv, buf),
     ret |-> Len(buf)]

\* SecureStream::write_packet with the IV gen_random yields, the stream
\* taking all the bytes: the head, then the encrypted data; buf.len() is
\* returned.
SecureStream_write_packet(aes_key, buf, iv) ==
    [bytes |-> ToLeBytes(AsU32(Len(buf) + 16), 4) \o iv \o Aes128CfbEnc(aes_key, iv, buf),
     ret |-> Len(buf)]

\* The loop `while *read != buf.len() { *read += stream.read(..)? }` over a
\* stream that fails with WouldBlock when it has no bytes: the buffer is
\* filled from the stream as far as the stream has bytes.
FillFrom(buf, size, stream) ==
    LET n == Min(size - Len(buf), Len(stream))
    IN  [buf |-> buf \o Take(stream, n), stream |-> Drop(stream, n),
         ok |-> Len(buf) + n = size]

\* SecureStream::read_packet: the state, the stream and the decrypted packet
\* or the error.  The heads a peer adapter writes announce 16 bytes or more,
\* so the subtraction of SECURE_HEADER_SIZE does not overflow here.
SecureStream_read_packet(aes_key, state, stream) ==
    LET start == IF state = None THEN ReadHead(<<>>) ELSE state
        head == IF start.tag = "Head"
                THEN FillFrom(start.buf, SECURE_HEAD_SIZE, stream)
                ELSE [buf |-> <<>>, stream |-> stream, ok |-> TRUE]
    IN  IF ~head.ok
        THEN [current_read |-> ReadHead(head.buf), stream |-> head.stream,
              ok |-> FALSE, chunk |-> <<>>]
        ELSE LET data_state ==
                     IF start.tag = "Head"
                     THEN ReadData(SubSeq(head.buf, 5, 20),
                                   U32FromLeBytes(SubSeq(head.buf, 1, 4)) - SECURE_HEADER_SIZE,
                                   <<>>)
                     ELSE start
                 data == FillFrom(data_state.buf, data_state.size, head.stream)
             IN  IF ~data.ok
                 THEN [current_read |-> ReadData(data_state.iv, data_state.size, data.buf),
                       stream |-> data.stream, ok |-> FALSE, chunk |-> <<>>]
                 ELSE [current_read |-> None, stream |-> data.stream, ok |-> TRUE,
                       chunk |-> Aes128CfbDec(aes_key, data_state.iv, data.buf)]

\* A faulty variant of read: what does not fit the caller's buffer is dropped.
SecureStream_read_dropsRest(aes_key, state, buf, stream, len, front) ==
    LET packet == IF buf = <<>>
                  THEN SecureStream_read_packet(aes_key, state, stream)
                  ELSE [current_read |-> state, stream |-> stream, ok |-> TRUE,
                        chunk |-> <<>>]
        filled == buf \o packet.chunk
        n == Min(len, Min(front, Len(filled)))
    IN  IF ~packet.ok
        THEN [current_read |-> packet.current_read, read_buf |-> buf,
              stream |-> packet.stream, ret |-> RetErr("WouldBlock"), out |-> <<>>]
        ELSE [current_read |-> packet.current_read, read_buf |-> <<>>,
              stream |-> packet.stream, ret |-> RetOk(n), out |-> Take(filled, n)]

\* SecureStream::read(buf) of secure/stream.rs, buf of len bytes: a packet is
\* read when read_buf is empty, then read_buf.read(buf) takes bytes from the
\* front slice of read_buf.  out is what was copied to buf.
SecureStream_read(aes_key, state, buf, stream, len, front) ==
    LET packet == IF buf = <<>>
                  THEN SecureStream_read_packet(aes_key, state, stream)
                  ELSE [current_read |-> state, stream |-> stream, ok |-> TRUE,
                        chunk |-> <<>>]
        filled == buf \o packet.chunk
        n == Min(len, Min(front, Len(filled)))
    IN  IF ~packet.ok
        THEN [current_read |-> packet.current_read, read_buf |-> buf,
              stream |-> packet.stream, ret |-> RetErr("WouldBlock"), out |-> <<>>]
        ELSE [current_read |-> packet.current_read, read_buf |-> Drop(filled, n),
              stream |-> packet.stream, ret |-> RetOk(n), out |-> Take(filled, n)]

\* Option<SecureHeader> of io.rs.
LegacySome(header) == [tag |-> "Some", data_size |-> header.size, iv |-> header.iv]

\* SecureStream::try_decrypt_encrypted of io.rs.  The heads a peer adapter
\* writes announce 16 bytes or more, so the subtraction does not overflow.
Legacy_try_decrypt_encrypted(aes_key, cur, buffer, decrypted) ==
    LET has_head == cur # None \/ Len(buffer) >= 20
        header == IF cur # None THEN cur
                  ELSE LegacySome(DecodeSecureRawHeader(Take(buffer, 20)))
        rest == IF cur # None THEN buffer ELSE Drop(buffer, 20)
        data_size == header.data_size - 16
    IN  IF ~has_head
        THEN [current |-> cur, read_buffer |-> buffer, decrypted_buffer |-> decrypted]
        ELSE IF Len(rest) >= data_size
        THEN [current |-> None, read_buffer |-> Drop(rest, data_size),
              decrypted_buffer |->
                  decrypted \o Aes128CfbDec(aes_key, header.iv, Take(rest, data_size))]
        ELSE [current |-> header, read_buffer |-> rest, decrypted_buffer |-> decrypted]

\* SecureStream::try_read_decrypted of io.rs: the bytes copied to buf.
Legacy_try_read_decrypted(decrypted, len) ==
    IF Len(decrypted) > 0 /\ len > 0 THEN Take(decrypted, Min(len, Len(decrypted)))
    ELSE <<>>

\* SecureStream::read(buf) of io.rs, buf of len bytes: when nothing is
\* decrypted, the stream is read once (all it has, up to 2048 bytes) and
\* decrypting is tried again.  A stream without bytes returns 0 or fails,
\* as `empty` says.  out is what was copied to buf.
Legacy_SecureStream_read(aes_key, cur, buffer, decrypted, stream, len, empty) ==
    LET first == Legacy_try_decrypt_encrypted(aes_key, cur, buffer, decrypted)
        got == Legacy_try_read_decrypted(first.decrypted_buffer, len)
        second == Legacy_try_decrypt_encrypted(aes_key, first.current,
                                               first.read_buffer \o stream,
                                               first.decrypted_buffer)
        again == Legacy_try_read_decrypted(second.decrypted_buffer, len)
    IN  IF Len(got) > 0
        THEN [current |-> first.current, read_buffer |-> first.read_buffer,
              decrypted_buffer |-> Drop(first.decrypted_buffer, Len(got)),
              stream |-> stream, ret |-> RetOk(Len(got)), out |-> got]
        ELSE IF stream = <<>> /\ empty = "WouldBlock"
        THEN [current |-> first.current, read_buffer |-> first.read_buffer,
              decrypted_buffer |-> first.decrypted_buffer,
              stream |-> stream, ret |-> RetErr("WouldBlock"), out |-> <<>>]
        ELSE [current |-> second.current, read_buffer |-> second.read_buffer,
              decrypted_buffer |-> Drop(second.decrypted_buffer, Len(again)),
              stream |-> <<>>, ret |-> RetOk(Len(again)), out |-> again]

\* SecureStream::new(crypto, stream) at both ends of one transport:
\* "adapter" is secure/stream.rs, "legacy_stream" is io.rs.
InitStream ==
    /\ scenario \in {"adapter", "legacy_stream"}
    /\ AppIdle
    /\ CommandIdle
    /\ LayerIdle
    /\ usize_bytes = 8
    /\ crypto = KeyA
    /\ transport = <<>>
    /\ in_flight = <<>>
    /\ current_handshake = None
    /\ StreamIdle
    /\ LegacyIdle
    /\ sent = <<>>
    /\ moved = 0
    /\ received = <<>>
    /\ lastRet = NoRet

\* stream.write(buf) at the writing end.
Stream_write(buf, iv) ==
    /\ scenario = "adapter"
    /\ Len(sent) < MaxSends
    /\ LET r == SecureStream_write_packet(crypto, buf, iv)
       IN /\ in_flight' = in_flight \o r.bytes
          /\ lastRet' = RetOk(r.ret)
    /\ sent' = Append(sent, [kind |-> "write", data |-> buf, iv |-> iv])
    /\ UNCHANGED <<scenario, appVars, commandVars, layerVars, sessionVars, crypto, transport,
                   streamVars, legacyVars, moved, received>>

\* stream.write(buf) at the writing end (io.rs).
LegacyStream_write(buf, iv) ==
    /\ scenario = "legacy_stream"
    /\ Len(sent) < MaxSends
    /\ LET r == Legacy_SecureStream_write(crypto, buf, iv)
       IN /\ in_flight' = in_flight \o r.bytes
          /\ lastRet' = RetOk(r.ret)
    /\ sent' = Append(sent, [kind |-> "write", data |-> buf, iv |-> iv])
    /\ UNCHANGED <<scenario, appVars, commandVars, layerVars, sessionVars, crypto, transport,
                   streamVars, legacyVars, moved, received>>

\* The IV the random generator yields for the k-th packet of a stream
\* adapter: consecutive packets get different IVs.
DrawnIvs(k) == IF k % 2 = 1 THEN {IvA} ELSE {IvZero}

\* What the transport carries at once: MaxChunk bytes or all the bytes in
\* flight.
DeliverSizes(b) == {n \in 1..Len(b) : n = MaxChunk \/ n = Len(b)}

\* The transport carries the next n bytes to the reading end.
Deliver(n) ==
    /\ scenario \in {"adapter", "legacy_stream"}
    /\ n <= Len(in_flight)
    /\ transport' = transport \o Take(in_flight, n)
    /\ in_flight' = Drop(in_flight, n)
    /\ moved' = moved + n
    /\ lastRet' = NoRet
    /\ UNCHANGED <<scenario, appVars, commandVars, layerVars, sessionVars, crypto, streamVars,
                   legacyVars, sent, received>>

\* stream.read(buf) at the reading end, buf of len bytes.
Stream_read(len, front) ==
    /\ scenario = "adapter"
    /\ LET r == SecureStream_read(crypto, current_read, read_buf, transport, len, front)
       IN /\ current_read' = r.current_read
          /\ read_buf' = r.read_buf
          /\ transport' = r.stream
          /\ lastRet' = r.ret
          /\ received' = received \o r.out
    /\ UNCHANGED <<scenario, appVars, commandVars, layerVars, sessionVars, crypto, in_flight,
                   current_write, read_pc, current_packet, legacyVars, sent, moved>>

\* stream.read(buf) at the reading end (io.rs), buf of len bytes.
LegacyStream_read(len, empty) ==
    /\ scenario = "legacy_stream"
    /\ LET r == Legacy_SecureStream_read(crypto, legacy_current, legacy_read_buffer,
                                         legacy_decrypted_buffer, transport, len, empty)
       IN /\ legacy_current' = r.current
          /\ legacy_read_buffer' = r.read_buffer
          /\ legacy_decrypted_buffer' = r.decrypted_buffer
          /\ transport' = r.stream
          /\ lastRet' = r.ret
          /\ received' = received \o r.out
    /\ UNCHANGED <<scenario, appVars, commandVars, layerVars, sessionVars, crypto, in_flight,
                   streamVars, legacy_handshaked, sent, moved>>

NextStream ==
    \/ \E buf \in Bufs, iv \in DrawnIvs(Len(sent) + 1) : Stream_write(buf, iv)
    \/ \E buf \in Bufs, iv \in DrawnIvs(Len(sent) + 1) : LegacyStream_write(buf, iv)
    \/ \E n \in DeliverSizes(in_flight) : Deliver(n)
    \/ \E len \in ReadLens, front \in FrontLens : Stream_read(len, front)
    \/ \E len \in ReadLens, empty \in {"Eof", "WouldBlock"} : LegacyStream_read(len, empty)

SpecStream == InitStream /\ [][NextStream]_vars

(***************************************************************************)
(* Writers that draw the iv of each packet from the random generator      *)
(* (secure/layer.rs, secure/stream/encode.rs, secure/stream.rs).           *)
(***************************************************************************)
\* A faulty variant of SecureLayer::write: the data is encrypted under a
\* zero iv, whatever iv the header carries.
SecureLayer_write_fixedIv(aes_key, buf, iv) ==
    LET data_buf == Aes128CfbEnc(aes_key, IvZero, buf)
    IN  [bytes |-> ToLeBytes(AsU32(Len(data_buf) + Len(iv)), 4) \o iv \o data_buf,
         data_buf |-> data_buf,
         ret |-> Len(data_buf)]

\* SecureLayer::write with the iv gen_random has drawn: the serialized
\* SecureHeader { data_size, iv }, then the encrypted data; returns the
\* length of the encrypted data.
SecureLayer_write(aes_key, buf, iv) ==
    LET data_buf == Aes128CfbEnc(aes_key, iv, buf)
    IN  [bytes |-> ToLeBytes(AsU32(Len(data_buf) + Len(iv)), 4) \o iv \o data_buf,
         data_buf |-> data_buf,
         ret |-> Len(data_buf)]

\* to_encrypted_packet with the iv gen_random has drawn: data_size, the
\* serialized SecureHeader { iv }, the encrypted data.
to_encrypted_packet(aes_key, data, iv) ==
    LET data_buf == Aes128CfbEnc(aes_key, iv, data)
    IN  [bytes |-> ToLeBytes(AsU32(Len(data_buf) + Len(iv)), 4) \o iv \o data_buf,
         data_buf |-> data_buf]

InitSink ==
    /\ scenario = "sink"
    /\ AppIdle
    /\ CommandIdle
    /\ LayerIdle
    /\ usize_bytes = 8
    /\ crypto \in Keys
    /\ transport = <<>>
    /\ in_flight = <<>>
    /\ current_handshake = None
    /\ StreamIdle
    /\ LegacyIdle
    /\ sent = <<>>
    /\ moved = 0
    /\ received = <<>>
    /\ lastRet = NoRet

\* layer.write(buf): gen_random yields iv.
Sink_layer_write(buf, iv) ==
    /\ scenario = "sink"
    /\ Len(sent) < MaxSends
    /\ LET r == SecureLayer_write(crypto, buf, iv)
       IN /\ in_flight' = in_flight \o r.bytes
          /\ lastRet' = RetOk(r.ret)
          /\ sent' = Append(sent, [kind |-> "layer_write", data |-> buf, iv |-> iv,
                                   data_buf |-> r.data_buf, bytes |-> r.bytes])
    /\ UNCHANGED <<scenario, appVars, commandVars, layerVars, sessionVars, crypto, transport,
                   streamVars, legacyVars, moved, received>>

\* stream.write_all(&to_encrypted_packet(&crypto, buf)?): gen_random yields iv.
Sink_to_encrypted_packet(buf, iv) ==
    /\ scenario = "sink"
    /\ Len(sent) < MaxSends
    /\ LET r == to_encrypted_packet(crypto, buf, iv)
       IN /\ in_flight' = in_flight \o r.bytes
          /\ lastRet' = RetOk(Len(r.bytes))
          /\ sent' = Append(sent, [kind |-> "to_encrypted_packet", data |-> buf, iv |-> iv,
                                   data_buf |-> r.data_buf, bytes |-> r.bytes])
    /\ UNCHANGED <<scenario, appVars, commandVars, layerVars, sessionVars, crypto, transport,
                   streamVars, legacyVars, moved, received>>

\* SecureStream::write_packet(buf) on a stream that takes all the bytes:
\* gen_random yields iv.
Sink_write_packet(buf, iv) ==
    /\ scenario = "sink"
    /\ Len(sent) < MaxSends
    /\ LET r == SecureStream_write_packet(crypto, buf, iv)
       IN /\ in_flight' = in_flight \o r.bytes
          /\ lastRet' = RetOk(r.ret)
          /\ sent' = Append(sent, [kind |-> "write_packet", data |-> buf, iv |-> iv,
                                   data_buf |-> Drop(r.bytes, SECURE_HEAD_SIZE),
                                   bytes |-> r.bytes])
    /\ UNCHANGED <<scenario, appVars, commandVars, layerVars, sessionVars, crypto, transport,
                   streamVars, legacyVars, moved, received>>

NextSink ==
    \/ \E buf \in Bufs, iv \in Ivs : Sink_layer_write(buf, iv)
    \/ \E buf \in Bufs, iv \in Ivs : Sink_to_encrypted_packet(buf, iv)
    \/ \E buf \in Bufs, iv \in Ivs : Sink_write_packet(buf, iv)

SpecSink == InitSink /\ [][NextSink]_vars

(***************************************************************************)
(* The name field of Header and the Builder (command/mod.rs,               *)
(* command/builder.rs).  A &str is the sequence of its UTF-8 bytes; the    *)
(* strings of the model hold one-byte and two-byte characters.             *)
(***************************************************************************)
\* "ABCDEFGHIJKLM": 13 one-byte characters.
NameLong == <<65, 66, 67, 68, 69, 70, 71, 72, 73, 74, 75, 76, 77>>
\* "TEST\0XY": a NUL inside.
NameNul == <<84, 69, 83, 84, 0, 88, 89>>
\* "ABCDEFGHIJ" and a two-byte character: 12 bytes.
NameWide == <<65, 66, 67, 68, 69, 70, 71, 72, 73, 74, 195, 169>>

\* The strings the caller passes: "", "TEST", the strings above and their
\* prefixes (cut at a character boundary), a two-byte character alone.
NameStrings ==
    {Take(NameLong, n) : n \in 0..Len(NameLong)}
        \cup {Take(NameNul, n) : n \in 4..Len(NameNul)}
        \cup {NameWide, <<195, 169>>, <<0>>}

\* The payloads C::encode yields.
Payloads == { <<>>, <<1, 2, 3>> }

\* std::str::from_utf8 on one-byte and two-byte characters.
RECURSIVE Utf8Valid(_)
Utf8Valid(b) ==
    IF b = <<>> THEN TRUE
    ELSE IF b[1] < 128 THEN Utf8Valid(Drop(b, 1))
    ELSE IF b[1] \in 194..223 /\ Len(b) >= 2 /\ b[2] \in 128..191
         THEN Utf8Valid(Drop(b, 2))
    ELSE FALSE

\* A faulty variant of Header::to_name: the array starts as spaces.
Header_to_name_spaces(name) ==
    IF Len(name) > 11 THEN RetPanic
    ELSE RetOk([j \in 1..11 |-> IF j <= Len(name) THEN name[j] ELSE 32])

\* Header::to_name: copy_from_slice into name[..min(len, 11)] panics when
\* the source is longer than the destination.
Header_to_name(name) ==
    IF Len(name) > 11 THEN RetPanic
    ELSE RetOk([j \in 1..11 |-> IF j <= Len(name) THEN name[j] ELSE 0])

\* Header::set_name: the header after the call and how the call ended.
Header_set_name(h, name) ==
    LET r == Header_to_name(name)
    IN  IF r.kind = "panic" THEN [header |-> h, ret |-> RetPanic]
        ELSE [header |-> [h EXCEPT !.name = r.value], ret |-> RetOk(<<>>)]

\* Header::name: the bytes before the first NUL (all 11 without one), as a
\* String when they are UTF-8.
Header_name(h) ==
    LET nuls == {j \in 1..11 : h.name[j] = 0}
        size == IF nuls = {} THEN 11
                ELSE (CHOOSE j \in nuls : \A k \in nuls : j <= k) - 1
        bytes == Take(h.name, size)
    IN  IF Utf8Valid(bytes) THEN RetOk(bytes) ELSE RetErr("FromUtf8Error")

\* Builder::encode for a CommandData whose method() is data_name and whose
\* encode() is data: the name is the first 11 bytes of data_name; status and
\* data_type are 0.
Builder_encode(id, data_name, data) ==
    LET len == Min(Len(data_name), 11)
    IN  RetOk([header |-> [id |-> id, status |-> 0,
                           name |-> [j \in 1..11 |-> IF j <= len THEN data_name[j] ELSE 0],
                           data_type |-> 0, data_size |-> Len(data)],
               data |-> data])

\* Builder::new (and Construct::new), set_status and set_data_type: the
\* builder's id, status and data_type.
Builder_new(id) == [id |-> id, status |-> 0, data_type |-> 0]
Builder_set_status(builder, status) == [builder EXCEPT !.status = status]
Builder_set_data_type(builder, data_type) == [builder EXCEPT !.data_type = data_type]

\* A caller holding a Header.
InitHeader ==
    /\ scenario = "header"
    /\ AppIdle
    /\ CommandIdle
    /\ LayerIdle
    /\ IoIdle
    /\ sent = <<>>
    /\ moved = 0
    /\ received = <<>>
    /\ lastRet = NoRet

\* header.set_name(name).  sent holds the last call that made a name,
\* received what name() returned since.
Header_call_set_name(name) ==
    /\ scenario = "header"
    /\ LET r == Header_set_name(the_header, name)
       IN /\ the_header' = r.header
          /\ lastRet' = r.ret
    /\ sent' = <<[kind |-> "set_name", data |-> name]>>
    /\ received' = <<>>
    /\ UNCHANGED <<scenario, current_command, commandVars, layerVars, ioVars, processorVars, serverVars,
                   networkVars, moved>>

\* Header::to_name(name).
Header_call_to_name(name) ==
    /\ scenario = "header"
    /\ lastRet' = Header_to_name(name)
    /\ sent' = <<[kind |-> "to_name", data |-> name]>>
    /\ received' = <<>>
    /\ UNCHANGED <<scenario, commandVars, layerVars, ioVars, appVars, moved>>

\* header.name().
Header_call_name ==
    /\ scenario = "header"
    /\ received = <<>>
    /\ lastRet' = Header_name(the_header)
    /\ received' = <<Header_name(the_header)>>
    /\ UNCHANGED <<scenario, commandVars, layerVars, ioVars, appVars, sent, moved>>

\* Builder::new(id, data).encode(); the caller keeps the command's header.
Builder_call_encode(data_name, data) ==
    /\ scenario = "header"
    /\ LET r == Builder_encode(1, data_name, data)
       IN /\ the_header' = r.value.header
          /\ lastRet' = r
    /\ sent' = <<[kind |-> "encode", data |-> data_name]>>
    /\ received' = <<>>
    /\ UNCHANGED <<scenario, current_command, commandVars, layerVars, ioVars, processorVars, serverVars,
                   networkVars, moved>>

\* The status and data_type the caller configures.
BuilderStatuses == {0, 3}
BuilderDataTypes == {0, 2}

\* Builder::new(id, data).set_status(status).set_data_type(data_type)
\* .encode(); the caller keeps the command's header.
Builder_call_configured(status, data_type, data_name, data) ==
    /\ scenario = "header"
    /\ LET builder == Builder_set_data_type(Builder_set_status(Builder_new(1), status),
                                            data_type)
           r == Builder_encode(builder.id, data_name, data)
       IN /\ the_header' = r.value.header
          /\ lastRet' = r
          /\ sent' = <<[kind |-> "build", data |-> data_name, builder |-> builder,
                        payload |-> data]>>
    /\ received' = <<>>
    /\ UNCHANGED <<scenario, current_command, commandVars, layerVars, ioVars, processorVars, serverVars,
                   networkVars, moved>>

NextHeader ==
    \/ \E name \in NameStrings : Header_call_set_name(name)
    \/ \E name \in NameStrings : Header_call_to_name(name)
    \/ Header_call_name
    \/ \E name \in NameStrings, data \in Payloads : Builder_call_encode(name, data)
    \/ \E status \in BuilderStatuses, data_type \in BuilderDataTypes,
          name \in NameStrings, data \in Payloads :
            Builder_call_configured(status, data_type, name, data)

SpecHeader == InitHeader /\ [][NextHeader]_vars

(***************************************************************************)
(* Commands over a stream: ReadCommand, WriteCommand (command/mod.rs) and  *)
(* CommandProcessor (command/processor.rs).  A header is the Header of     *)
(* command/mod.rs, [id, status, name, data_type, data_size].               *)
(***************************************************************************)
Some(v) == [tag |-> "Some", value |-> v]

\* "Hello" NUL-padded to 11 bytes (the example of lib.rs).
NameHello == <<72, 101, 108, 108, 111, 0, 0, 0, 0, 0, 0>>

\* The commands the caller writes: data_size equal to, below and above the
\* length of data, and an empty command.
SizedCommands ==
    { [header |-> [id |-> 0, status |-> 0, name |-> NameHello, data_type |-> 0,
                   data_size |-> 5],
       data |-> <<72, 101, 108, 108, 111>>],
      [header |-> [id |-> 1, status |-> 0, name |-> MethodTest, data_type |-> 0,
                   data_size |-> 1],
       data |-> <<1, 2, 3>>],
      [header |-> [id |-> 2, status |-> -1, name |-> MethodTest, data_type |-> 0,
                   data_size |-> 4],
       data |-> <<9>>],
      [header |-> [id |-> 3, status |-> 0, name |-> MethodEmpty, data_type |-> 0,
                   data_size |-> 0],
       data |-> <<>>] }

\* The lists the caller passes to write_all_command.
CommandLists ==
    { <<c, d>> : c \in {x \in SizedCommands : x.header.id \in {0, 2}},
                 d \in {x \in SizedCommands : x.header.id \in {0, 1}} }

\* bincode::serialize of Header: the fields in order, integers little-endian.
Header_serialize(h) ==
    ToLeBytes(h.id, 4) \o ToLeBytes(h.status, 2) \o h.name
        \o ToLeBytes(h.data_type, 1) \o ToLeBytes(h.data_size, 4)

\* bincode::deserialize::<Header> of 22 bytes.
Header_deserialize(buf) ==
    [id |-> SignedFromLeBytes(SubSeq(buf, 1, 4)),
     status |-> SignedFromLeBytes(SubSeq(buf, 5, 6)),
     name |-> SubSeq(buf, 7, 17),
     data_type |-> SignedFromLeBytes(SubSeq(buf, 18, 18)),
     data_size |-> SignedFromLeBytes(SubSeq(buf, 19, 22))]

\* WriteCommand::write_command: the header as it is, then all of data;
\* returns the bytes of both.
WriteCommand_write_command(command) ==
    LET head == Header_serialize(command.header)
    IN  [bytes |-> head \o command.data, ret |-> Len(head) + Len(command.data)]

\* Write for Cursor<Vec<u8>>: bytes written over buffer from position pos;
\* the vector grows when the bytes go past its end.
Cursor_write(buffer, pos, bytes) ==
    [j \in 1..(IF pos + Len(bytes) > Len(buffer) THEN pos + Len(bytes) ELSE Len(buffer)) |->
        IF j > pos /\ j <= pos + Len(bytes) THEN bytes[j - pos] ELSE buffer[j]]

\* n zero bytes.
Zeros(n) == [j \in 1..n |-> 0]

\* CommandProcessor::write_commmand: the command is written into a cursor
\* over data_size + 22 zero bytes, and the cursor's vector goes to the
\* stream; returns what write_command returned.  (data_size is not negative
\* in the commands of the model.)
CommandProcessor_write_commmand(command) ==
    LET w == WriteCommand_write_command(command)
    IN  [bytes |-> Cursor_write(Zeros(command.header.data_size + 22), 0, w.bytes),
         ret |-> w.ret]

\* The two loops of write_all_command: the sum of the sizes, and the
\* commands written one after another into the cursor.
RECURSIVE SumSizes(_)
SumSizes(list) ==
    IF list = <<>> THEN 0
    ELSE Head(list).header.data_size + 22 + SumSizes(Tail(list))

RECURSIVE WriteEach(_)
WriteEach(list) ==
    IF list = <<>> THEN <<>>
    ELSE WriteCommand_write_command(Head(list)).bytes \o WriteEach(Tail(list))

\* CommandProcessor::write_all_command.
CommandProcessor_write_all_command(list) ==
    LET all == WriteEach(list)
    IN  [bytes |-> Cursor_write(Zeros(SumSizes(list)), 0, all), ret |-> Len(all)]

\* ReadHeader::read_header on a reader holding `stream`: the outcomes.
ReadHeader_read_header(stream) ==
    { IF r.ok THEN [stream |-> r.stream, ret |-> RetOk(Header_deserialize(r.buf))]
      ELSE [stream |-> r.stream, ret |-> RetErr("Io")] : r \in ReadExact(stream, 22) }

\* ReadCommand::read_command: the header, then read_exact into data_buf, a
\* vector made by Vec::with_capacity, whose length is 0: no byte is read.
ReadCommand_read_command(stream) ==
    { IF h.ret.kind = "err" THEN h
      ELSE [stream |-> h.stream,
            ret |-> RetOk([header |-> h.ret.value, data |-> <<>>])] :
        h \in ReadHeader_read_header(stream) }

\* CommandProcessor::try_read_command.  A negative data_size is, as usize,
\* above the length of every buffer.
CommandProcessor_try_read_command(cur, buffer) ==
    LET has_head == cur # None \/ Len(buffer) >= 22
        head == IF cur # None THEN cur.value ELSE Header_deserialize(Take(buffer, 22))
        rest == IF cur # None THEN buffer ELSE Drop(buffer, 22)
        command_size == head.data_size
    IN  IF ~has_head
        THEN [current |-> cur, read_buffer |-> buffer, ret |-> RetNone]
        ELSE IF command_size >= 0 /\ Len(rest) >= command_size
        THEN [current |-> None, read_buffer |-> Drop(rest, command_size),
              ret |-> RetSome([header |-> head, data |-> Take(rest, command_size)])]
        ELSE [current |-> Some(head), read_buffer |-> rest, ret |-> RetNone]

\* CommandProcessor::read_commmand, rd being what stream.read gives ([ret,
\* out]) if it is called: did_read says whether it was.
CommandProcessor_read_commmand(cur, buffer, rd) ==
    LET first == CommandProcessor_try_read_command(cur, buffer)
        second == CommandProcessor_try_read_command(first.current,
                                                    first.read_buffer \o rd.out)
    IN  IF first.ret.kind = "some" THEN first @@ [did_read |-> FALSE]
        ELSE IF rd.ret.kind = "err"
        THEN [current |-> first.current, read_buffer |-> first.read_buffer,
              ret |-> rd.ret, did_read |-> TRUE]
        ELSE second @@ [did_read |-> TRUE]

\* A CommandProcessor, or a plain writer, writing to a stream that a reader
\* reads commands from.
InitProcessor ==
    /\ scenario = "processor"
    /\ AppIdle
    /\ CommandIdle
    /\ LayerIdle
    /\ IoIdle
    /\ sent = <<>>
    /\ moved = 0
    /\ received = <<>>
    /\ lastRet = NoRet

\* processor.write_commmand(command).
Processor_write_commmand(command) ==
    /\ scenario = "processor"
    /\ Len(sent) < MaxSends
    /\ LET r == CommandProcessor_write_commmand(command)
       IN /\ transport' = transport \o r.bytes
          /\ lastRet' = RetOk(r.ret)
          /\ sent' = Append(sent, [kind |-> "write_commmand", list |-> <<command>>,
                                   bytes |-> r.bytes, ret |-> r.ret])
    /\ UNCHANGED <<scenario, appVars, commandVars, layerVars, sessionVars, crypto,
                   in_flight, streamVars, legacyVars, moved, received>>

\* processor.write_all_command(list).
Processor_write_all_command(list) ==
    /\ scenario = "processor"
    /\ Len(sent) < MaxSends
    /\ LET r == CommandProcessor_write_all_command(list)
       IN /\ transport' = transport \o r.bytes
          /\ lastRet' = RetOk(r.ret)
          /\ sent' = Append(sent, [kind |-> "write_all_command", list |-> list,
                                   bytes |-> r.bytes, ret |-> r.ret])
    /\ UNCHANGED <<scenario, appVars, commandVars, layerVars, sessionVars, crypto,
                   in_flight, streamVars, legacyVars, moved, received>>

\* stream.write_command(command) on the stream itself, still empty.
Writer_write_command(command) ==
    /\ scenario = "processor"
    /\ sent = <<>>
    /\ LET r == WriteCommand_write_command(command)
       IN /\ transport' = transport \o r.bytes
          /\ lastRet' = RetOk(r.ret)
          /\ sent' = Append(sent, [kind |-> "write_command", list |-> <<command>>,
                                   bytes |-> r.bytes, ret |-> r.ret])
    /\ UNCHANGED <<scenario, appVars, commandVars, layerVars, sessionVars, crypto,
                   in_flight, streamVars, legacyVars, moved, received>>

\* reader.read_command() on a reader holding the bytes written so far.
\* moved counts the bytes the reader consumed, received holds each result
\* with the count of its call.
Reader_read_command ==
    /\ scenario = "processor"
    /\ transport # <<>>
    /\ Len(received) < MaxOps
    /\ \E r \in ReadCommand_read_command(transport) :
          /\ transport' = r.stream
          /\ lastRet' = r.ret
          /\ moved' = moved + (Len(transport) - Len(r.stream))
          /\ received' = Append(received,
                                [ret |-> r.ret, consumed |-> Len(transport) - Len(r.stream)])
    /\ UNCHANGED <<scenario, appVars, commandVars, layerVars, sessionVars, crypto,
                   in_flight, streamVars, legacyVars, sent>>

NextProcessor ==
    \/ \E command \in SizedCommands : Processor_write_commmand(command)
    \/ \E list \in CommandLists : Processor_write_all_command(list)
    \/ \E command \in SizedCommands : Writer_write_command(command)
    \/ Reader_read_command

SpecProcessor == InitProcessor /\ [][NextProcessor]_vars

(***************************************************************************)
(* The echo example of lib.rs: a CommandProcessor over a                   *)
(* SecureClientStream writes commands, a CommandProcessor over a           *)
(* SecureServerStream reads them (io.rs, command/processor.rs).            *)
(***************************************************************************)
\* The length of handshake_buf in SecureServerStream: the 12 bytes of the
\* handshake header and the 256 bytes of the encrypted key.
SERVER_HANDSHAKE_SIZE == 268

\* The length of the buffer read_commmand hands to stream.read.
PROCESSOR_READ_SIZE == 2048

\* Rsa::generate(2048) of the example: the key pair both ends hold.
ExampleRsaKey == [id |-> 2, size |-> 256]

\* The commands the client writes: data_size is the length of data.
ExampleCommands == {c \in SizedCommands : c.header.data_size = Len(c.data)}

\* The one element of a set of one element.
The(S) == CHOOSE x \in S : TRUE

\* CryptoStore::apply_encrypted_key: the decrypted key, when it has 16 bytes.
apply_encrypted_key(aes_key, encrypted_aes_key, key) ==
    The({ IF d.ok /\ Len(d.message) = 16 THEN [ok |-> TRUE, aes_key |-> d.message]
          ELSE [ok |-> FALSE, aes_key |-> aes_key] :
            d \in {RsaOaepDecrypt(key, encrypted_aes_key)} })

\* read_handshake_header and read_handshake_key on a cursor over buf: the
\* header's three u32, then encrypted_key_len bytes of key, which is applied.
read_handshake(aes_key, buf, key) ==
    LET encrypted_key_len == U32FromLeBytes(SubSeq(buf, 1, 4))
    IN  IF Len(buf) - 12 < encrypted_key_len THEN [ok |-> FALSE, aes_key |-> aes_key]
        ELSE The({ apply_encrypted_key(aes_key, encrypted_key, key) :
                     encrypted_key \in {SubSeq(buf, 13, 12 + encrypted_key_len)} })

\* SecureServerStream::read(buf), buf of len bytes.  Before the handshake
\* the stream is read once into a local copy of the handshake buffer, from
\* the position self.handshake holds; the copy is not stored back.  With
\* all 268 bytes the key is applied and the inner SecureStream is read.
SecureServerStream_read(is_handshaked, handshake, aes_key, key, cur, buffer, decrypted, stream, len, empty) ==
    LET had == IF handshake = None THEN <<>> ELSE handshake.value
        n == Min(SERVER_HANDSHAKE_SIZE - Len(had), Len(stream))
        handshake_buf == had \o Take(stream, n)
        after == Drop(stream, n)
        hs == The({ read_handshake(aes_key, b, key) : b \in {handshake_buf} })
        same == [handshaked |-> is_handshaked, handshake |-> handshake, aes_key |-> aes_key,
                 current |-> cur, read_buffer |-> buffer, decrypted_buffer |-> decrypted]
        inner(k, s) == Legacy_SecureStream_read(k, cur, buffer, decrypted, s, len, empty)
    IN  IF is_handshaked
        THEN [handshaked |-> TRUE, handshake |-> handshake, aes_key |-> aes_key]
                 @@ inner(aes_key, stream)
        ELSE IF stream = <<>> /\ empty = "WouldBlock"
        THEN same @@ [stream |-> stream, ret |-> RetErr("WouldBlock"), out |-> <<>>]
        ELSE IF Len(handshake_buf) < SERVER_HANDSHAKE_SIZE
        THEN same @@ [stream |-> after, ret |-> RetOk(0), out |-> <<>>]
        ELSE IF ~hs.ok
        THEN same @@ [stream |-> after, ret |-> RetErr("Crypto"), out |-> <<>>]
        ELSE [handshaked |-> TRUE, handshake |-> None, aes_key |-> hs.aes_key]
                 @@ inner(hs.aes_key, after)

\* The two processors of the example, the client's store holding one key,
\* the server's another.
InitIntegration ==
    /\ scenario = "integration"
    /\ the_header = ZeroHeader
    /\ processor_current = None
    /\ processor_read_buffer = <<>>
    /\ server_handshaked = FALSE
    /\ server_handshake = None
    /\ server_crypto = KeyZero
    /\ NetworkIdle
    /\ current_command = None
    /\ CommandIdle
    /\ LayerIdle
    /\ usize_bytes = 8
    /\ crypto = KeyA
    /\ transport = <<>>
    /\ in_flight = <<>>
    /\ current_handshake = None
    /\ StreamIdle
    /\ LegacyIdle
    /\ sent = <<>>
    /\ moved = 0
    /\ received = <<>>
    /\ lastRet = NoRet

\* client.write_commmand(command): write_all hands the frame to
\* SecureClientStream::write, which takes all of it.
Client_write_commmand(command, seed, iv) ==
    /\ scenario = "integration"
    /\ Len(sent) < MaxSends
    /\ LET frame == CommandProcessor_write_commmand(command)
           r == SecureClientStream_write(legacy_handshaked, crypto, ExampleRsaKey, seed,
                                         frame.bytes, iv)
       IN /\ in_flight' = in_flight \o r.bytes
          /\ legacy_handshaked' = r.handshaked
          /\ lastRet' = RetOk(frame.ret)
    /\ sent' = Append(sent, [kind |-> "write_commmand", command |-> command, iv |-> iv])
    /\ UNCHANGED <<scenario, appVars, commandVars, layerVars, sessionVars, crypto, transport,
                   streamVars, legacy_current, legacy_read_buffer,
                   legacy_decrypted_buffer, moved, received>>

\* What the transport carries at once: 100 bytes, the bytes of a handshake,
\* or all the bytes in flight.
TransportCuts(b) == {n \in 1..Len(b) : n \in {100, SERVER_HANDSHAKE_SIZE, Len(b)}}

\* The transport carries the next n bytes to the server.
Transport_deliver(n) ==
    /\ scenario = "integration"
    /\ n <= Len(in_flight)
    /\ transport' = transport \o Take(in_flight, n)
    /\ in_flight' = Drop(in_flight, n)
    /\ moved' = moved + n
    /\ UNCHANGED <<scenario, appVars, commandVars, layerVars, sessionVars, crypto,
                   streamVars, legacyVars, sent, received, lastRet>>

\* server.read_commmand(): the stream is read when no command is buffered.
Server_read_commmand(empty) ==
    /\ scenario = "integration"
    /\ \E rd \in {SecureServerStream_read(server_handshaked, server_handshake, server_crypto,
                                          ExampleRsaKey, legacy_current, legacy_read_buffer,
                                          legacy_decrypted_buffer, transport,
                                          PROCESSOR_READ_SIZE, empty)} :
       \E r \in {CommandProcessor_read_commmand(processor_current, processor_read_buffer,
                                                rd)} :
          /\ processor_current' = r.current
          /\ processor_read_buffer' = r.read_buffer
          /\ lastRet' = r.ret
          /\ received' = IF r.ret.kind = "some" THEN Append(received, r.ret.value)
                         ELSE received
          /\ IF r.did_read
             THEN /\ server_handshaked' = rd.handshaked
                  /\ server_handshake' = rd.handshake
                  /\ server_crypto' = rd.aes_key
                  /\ legacy_current' = rd.current
                  /\ legacy_read_buffer' = rd.read_buffer
                  /\ legacy_decrypted_buffer' = rd.decrypted_buffer
                  /\ transport' = rd.stream
             ELSE UNCHANGED <<serverVars, legacy_current, legacy_read_buffer,
                              legacy_decrypted_buffer, transport>>
    /\ UNCHANGED <<scenario, current_command, the_header, networkVars, commandVars, layerVars, sessionVars,
                   crypto, in_flight, streamVars, legacy_handshaked, sent, moved>>

NextIntegration ==
    \/ \E command \in ExampleCommands, seed \in OaepSeeds, iv \in DrawnIvs(Len(sent) + 1) :
          Client_write_commmand(command, seed, iv)
    \/ \E n \in TransportCuts(in_flight) : Transport_deliver(n)
    \/ \E empty \in {"Eof", "WouldBlock"} : Server_read_commmand(empty)

SpecIntegration == InitIntegration /\ [][NextIntegration]_vars

\* The transport delivers what is in flight, and the server's loop calls
\* read_commmand again and again.
FairIntegration ==
    /\ SpecIntegration
    /\ WF_vars(\E n \in TransportCuts(in_flight) : Transport_deliver(n))
    /\ WF_vars(\E empty \in {"Eof", "WouldBlock"} : Server_read_commmand(empty))

(***************************************************************************)
(* ChannelConnection (network.rs): channels to users over one processor.   *)
(***************************************************************************)
\* HashMap::insert and HashMap::remove.
MapPut(map, k, v) == [j \in (DOMAIN map) \cup {k} |-> IF j = k THEN v ELSE map[j]]
MapRemove(map, k) == [j \in (DOMAIN map) \ {k} |-> map[j]]

\* The orders in which HashMap::values may yield the entries with keys S.
Orders(S) ==
    {o \in [1..Cardinality(S) -> S] : \A i, j \in 1..Cardinality(S) : o[i] = o[j] => i = j}

\* The requests the users send and the commands the peer writes: header ids
\* 0 and 1, the peer's commands with a payload.
NetRequests ==
    { [header |-> [id |-> i, status |-> 0, name |-> MethodTest, data_type |-> 0,
                   data_size |-> 0],
       data |-> <<>>] : i \in {0, 1} }

NetResponses ==
    { [header |-> [id |-> i, status |-> 0, name |-> MethodTest, data_type |-> 0,
                   data_size |-> 1],
       data |-> <<7>>] : i \in {0, 1} }

\* The ids of the channels the caller creates.
ChannelIds == {0, 1}

\* ConnectionChannel::new_pair: the socket side, nothing sent either way.
NewChannel == [sender |-> <<>>, receiver |-> <<>>, connected |-> TRUE]

\* The inner loop of process over channel id: each command the user side
\* sent is recorded under its header id and written to the stream.
RECURSIVE TakeFrom(_, _, _)
TakeFrom(id, queue, cchan) ==
    IF queue = <<>> THEN [command_channel |-> cchan, written |-> <<>>]
    ELSE LET rest == TakeFrom(id, Tail(queue), MapPut(cchan, Head(queue).header.id, id))
         IN  [command_channel |-> rest.command_channel,
              written |-> CommandProcessor_write_commmand(Head(queue)).bytes
                              \o rest.written]

\* The outer loop of process, the channels in the order the map yields them.
RECURSIVE TakeRequests(_, _, _)
TakeRequests(cmap, order, cchan) ==
    IF order = <<>> THEN [command_channel |-> cchan, written |-> <<>>]
    ELSE LET one == TakeFrom(Head(order), cmap[Head(order)].receiver, cchan)
             rest == TakeRequests(cmap, Tail(order), one.command_channel)
         IN  [command_channel |-> rest.command_channel,
              written |-> one.written \o rest.written]

\* The broadcast loop: send(command.clone())? on each channel in turn; send
\* fails on a channel whose user side is dropped, and the loop ends there.
RECURSIVE SendEach(_, _, _)
SendEach(cmap, order, command) ==
    IF order = <<>> THEN [channel_map |-> cmap, ok |-> TRUE]
    ELSE IF ~cmap[Head(order)].connected THEN [channel_map |-> cmap, ok |-> FALSE]
    ELSE SendEach([cmap EXCEPT ![Head(order)].sender = Append(@, command)],
                  Tail(order), command)

\* A faulty variant of the routing: a command with a recorded channel is
\* broadcast as well.
ChannelConnection_route_broadcast(cmap, cchan, command, order) ==
    LET id == command.header.id
        all == SendEach(cmap, order, command)
    IN  [channel_map |-> all.channel_map, command_channel |-> MapRemove(cchan, id),
         ret |-> IF all.ok THEN RetOk(<<>>) ELSE RetErr("Channel"),
         routed |-> IF id \in DOMAIN cchan THEN Some(cchan[id]) ELSE None]

\* The match of process on a command that was read: the channel recorded
\* for its header id is removed from command_channel and the command sent
\* to that channel if it is attached; without a recorded channel the command
\* is sent to every attached channel, in the order the map yields them.
ChannelConnection_route(cmap, cchan, command, order) ==
    LET id == command.header.id
        all == SendEach(cmap, order, command)
    IN  IF id \in DOMAIN cchan
        THEN IF cchan[id] \notin DOMAIN cmap
             THEN [channel_map |-> cmap, command_channel |-> MapRemove(cchan, id),
                   ret |-> RetOk(<<>>), routed |-> Some(cchan[id])]
             ELSE IF ~cmap[cchan[id]].connected
             THEN [channel_map |-> cmap, command_channel |-> MapRemove(cchan, id),
                   ret |-> RetErr("Channel"), routed |-> Some(cchan[id])]
             ELSE [channel_map |-> [cmap EXCEPT ![cchan[id]].sender = Append(@, command)],
                   command_channel |-> MapRemove(cchan, id),
                   ret |-> RetOk(<<>>), routed |-> Some(cchan[id])]
        ELSE [channel_map |-> all.channel_map, command_channel |-> cchan,
              ret |-> IF all.ok THEN RetOk(<<>>) ELSE RetErr("Channel"),
              routed |-> None]

\* ChannelConnection::process over a stream holding `stream`: the outcomes,
\* one for each order in which the map yields the channels.  An empty stream
\* gives 0 bytes or fails with WouldBlock, as `empty` says.
ChannelConnection_process(cmap, cchan, cur, buffer, stream, empty) ==
    { LET taken == TakeRequests(cmap, first, cchan)
          drained == [id \in DOMAIN cmap |-> [cmap[id] EXCEPT !.receiver = <<>>]]
          rd == IF stream = <<>> /\ empty = "WouldBlock"
                THEN [ret |-> RetErr("WouldBlock"), out |-> <<>>]
                ELSE [ret |-> RetOk(Len(stream)), out |-> stream]
          r == CommandProcessor_read_commmand(cur, buffer, rd)
          left == IF r.did_read /\ rd.ret.kind = "ok" THEN <<>> ELSE stream
          routing == ChannelConnection_route(drained, taken.command_channel,
                                             r.ret.value, second)
      IN  IF r.ret.kind = "some"
          THEN [channel_map |-> routing.channel_map,
                command_channel |-> routing.command_channel,
                current |-> r.current, read_buffer |-> r.read_buffer, stream |-> left,
                written |-> taken.written, ret |-> routing.ret,
                read |-> r.ret, routed |-> routing.routed]
          ELSE [channel_map |-> drained, command_channel |-> taken.command_channel,
                current |-> r.current, read_buffer |-> r.read_buffer, stream |-> left,
                written |-> taken.written,
                ret |-> IF r.ret.kind = "err" THEN r.ret ELSE RetOk(<<>>),
                read |-> r.ret, routed |-> None] :
        first \in Orders(DOMAIN cmap), second \in Orders(DOMAIN cmap) }

\* ChannelConnection::new(CommandProcessor::new(stream)).
InitNetwork ==
    /\ scenario = "network"
    /\ AppIdle
    /\ CommandIdle
    /\ LayerIdle
    /\ IoIdle
    /\ sent = <<>>
    /\ moved = 0
    /\ received = <<>>
    /\ lastRet = NoRet

\* connection.create_channel().
Net_create_channel ==
    /\ scenario = "network"
    /\ next_channel_id \in ChannelIds
    /\ channel_map' = MapPut(channel_map, next_channel_id, NewChannel)
    /\ next_channel_id' = next_channel_id + 1
    /\ UNCHANGED <<scenario, current_command, the_header, processorVars, serverVars, command_channel,
                   commandVars, layerVars, ioVars, historyVars>>

\* connection.detach_channel(channel).
Net_detach_channel(id) ==
    /\ scenario = "network"
    /\ id \in DOMAIN channel_map
    /\ channel_map[id].connected
    /\ channel_map' = MapRemove(channel_map, id)
    /\ UNCHANGED <<scenario, current_command, the_header, processorVars, serverVars, next_channel_id,
                   command_channel, commandVars, layerVars, ioVars, historyVars>>

\* The user drops its side of channel id without detaching it.
Net_drop_channel(id) ==
    /\ scenario = "network"
    /\ id \in DOMAIN channel_map
    /\ channel_map[id].connected
    /\ channel_map' = [channel_map EXCEPT ![id].connected = FALSE]
    /\ UNCHANGED <<scenario, current_command, the_header, processorVars, serverVars, next_channel_id,
                   command_channel, commandVars, layerVars, ioVars, historyVars>>

\* channel.sender().send(command) on the user side of channel id.
Net_send(id, command) ==
    /\ scenario = "network"
    /\ Len(sent) + moved < MaxOps
    /\ id \in DOMAIN channel_map
    /\ channel_map[id].connected
    /\ channel_map' = [channel_map EXCEPT ![id].receiver = Append(@, command)]
    /\ sent' = Append(sent, [kind |-> "send", channel |-> id, command |-> command])
    /\ UNCHANGED <<scenario, current_command, the_header, processorVars, serverVars, next_channel_id,
                   command_channel, commandVars, layerVars, ioVars, moved, received,
                   lastRet>>

\* The peer writes a command to the stream once the commands it wrote before
\* are read; moved counts the peer's commands.
Net_peer_write(command) ==
    /\ scenario = "network"
    /\ Len(sent) + moved < MaxOps
    /\ transport = <<>>
    /\ processor_read_buffer = <<>>
    /\ transport' = transport \o WriteCommand_write_command(command).bytes
    /\ moved' = moved + 1
    /\ UNCHANGED <<scenario, appVars, commandVars, layerVars, sessionVars, crypto,
                   in_flight, streamVars, legacyVars, sent, received, lastRet>>

\* connection.process() on a non-blocking stream.  received holds the
\* command the call read, if any, with the channel recorded for it;
\* in_flight what the call wrote to the stream.
Net_process(empty) ==
    /\ scenario = "network"
    /\ \E o \in ChannelConnection_process(channel_map, command_channel, processor_current,
                                          processor_read_buffer, transport, empty) :
          /\ channel_map' = o.channel_map
          /\ command_channel' = o.command_channel
          /\ processor_current' = o.current
          /\ processor_read_buffer' = o.read_buffer
          /\ transport' = o.stream
          /\ in_flight' = o.written
          /\ lastRet' = o.ret
          /\ received' = IF o.read.kind = "some"
                         THEN <<[command |-> o.read.value, routed |-> o.routed]>>
                         ELSE <<>>
    /\ UNCHANGED <<scenario, current_command, the_header, serverVars, next_channel_id, commandVars,
                   layerVars, sessionVars, crypto, streamVars, legacyVars, sent, moved>>

NextNetwork ==
    \/ Net_create_channel
    \/ \E id \in DOMAIN channel_map : Net_detach_channel(id)
    \/ \E id \in DOMAIN channel_map : Net_drop_channel(id)
    \/ \E id \in DOMAIN channel_map, command \in NetRequests : Net_send(id, command)
    \/ \E command \in NetResponses : Net_peer_write(command)
    \/ Net_process("WouldBlock")

SpecNetwork == InitNetwork /\ [][NextNetwork]_vars

(***************************************************************************)
(* CommandCodec (command/codec/mod.rs, command/codec.rs): commands read    *)
(* from and written to a stream that may be non-blocking.                  *)
(***************************************************************************)
\* encode_head: the serialized header and the length of the data.
encode_head(command) == EncodeHeader(command.header) \o ToLeBytes(Len(command.data), 4)

\* decode_head: the header from the first 18 bytes, data_size from the last
\* four.  data, a zeroed buffer of data_size bytes, is kept as its length
\* until it is filled.
decode_head(buf) ==
    [header |-> DecodeRawHeader(buf).header,
     data_size |-> U32FromLeBytes(SubSeq(buf, 19, 22))]

\* CommandCodec::write(command): the bytes written to the stream and the
\* value returned.
CommandCodec_write(command) ==
    [bytes |-> encode_head(command) \o command.data,
     ret |-> RetOk(Len(command.data) + HEAD_SIZE)]

\* CommandCodec::read over a non-blocking stream holding `stream`: the
\* outcomes, each the codec's current_command, the stream and the value
\* returned.  current_command is taken; without one a head is read with
\* read_exact and decoded; the data is read with read_exact, and when that
\* fails the command goes back to current_command.  A read_exact that finds
\* too few bytes fails with WouldBlock.
CommandCodec_read(current, stream) ==
    UNION { IF ~head.ok
            THEN { [current_command |-> None, stream |-> head.stream,
                    ret |-> RetErr("WouldBlock")] }
            ELSE { IF ~data.ok
                   THEN [current_command |-> Some(head.command), stream |-> data.stream,
                         ret |-> RetErr("WouldBlock")]
                   ELSE [current_command |-> None, stream |-> data.stream,
                         ret |-> RetOk([size |-> HEAD_SIZE + Len(data.buf),
                                        command |-> [header |-> head.command.header,
                                                     data |-> data.buf]])] :
                   data \in ReadExact(head.stream, head.command.data_size) } :
            head \in IF current # None
                     THEN { [ok |-> TRUE, command |-> current.value, stream |-> stream] }
                     ELSE { [ok |-> h.ok, stream |-> h.stream,
                             command |-> IF h.ok THEN decode_head(h.buf)
                                         ELSE [header |-> NoHeader, data_size |-> 0]] :
                            h \in ReadExact(stream, HEAD_SIZE) } }

\* The commands written: the command of tests/client.rs and the one with an
\* empty payload.
CodecCommands == {c \in Commands : Len(c.data) \in {0, 3}}

\* CommandCodec::new on both ends of a non-blocking stream.
InitCodec ==
    /\ scenario = "codec"
    /\ AppIdle
    /\ CommandIdle
    /\ LayerIdle
    /\ IoIdle
    /\ sent = <<>>
    /\ moved = 0
    /\ received = <<>>
    /\ lastRet = NoRet

\* codec.write(&command) on the writing end.
Codec_write(command) ==
    /\ scenario = "codec"
    /\ Len(sent) < MaxSends
    /\ in_flight' = in_flight \o CommandCodec_write(command).bytes
    /\ sent' = Append(sent, [kind |-> "write", command |-> command,
                             ret |-> CommandCodec_write(command).ret])
    /\ lastRet' = NoRet
    /\ UNCHANGED <<scenario, appVars, commandVars, layerVars, sessionVars, crypto,
                   transport, streamVars, legacyVars, moved, received>>

\* The sizes of what arrives at once: a part of a head, a head and one more
\* byte, or all that is in flight.
CodecCuts(b) == {n \in {MaxChunk, HEAD_SIZE + 1, Len(b)} : 1 <= n /\ n <= Len(b)}

\* The next n bytes arrive at the reading end.
Codec_arrive(n) ==
    /\ scenario = "codec"
    /\ n <= Len(in_flight)
    /\ transport' = transport \o Take(in_flight, n)
    /\ in_flight' = Drop(in_flight, n)
    /\ moved' = moved + n
    /\ lastRet' = NoRet
    /\ UNCHANGED <<scenario, appVars, commandVars, layerVars, sessionVars, crypto,
                   streamVars, legacyVars, sent, received>>

\* codec.read() on the reading end, once some bytes have arrived.
Codec_read ==
    /\ scenario = "codec"
    /\ moved > 0
    /\ \E o \in CommandCodec_read(current_command, transport) :
          /\ current_command' = o.current_command
          /\ transport' = o.stream
          /\ lastRet' = o.ret
          /\ received' = IF o.ret.kind = "ok" THEN Append(received, o.ret.value.command)
                         ELSE received
    /\ UNCHANGED <<scenario, the_header, processorVars, serverVars, networkVars,
                   commandVars, layerVars, sessionVars, crypto, in_flight, streamVars,
                   legacyVars, sent, moved>>

NextCodec ==
    \/ \E command \in CodecCommands : Codec_write(command)
    \/ \E n \in CodecCuts(in_flight) : Codec_arrive(n)
    \/ Codec_read

SpecCodec == InitCodec /\ [][NextCodec]_vars

(***************************************************************************)
(* CommandProcessor::read_all_command over a stream that commands arrive   *)
(* on in parts (command/processor.rs).                                     *)
(***************************************************************************)
\* stream.read(&mut buf) with a buffer of PROCESSOR_READ_SIZE bytes: the
\* bytes that arrived; a stream with none gives 0 bytes or fails with
\* WouldBlock, as `empty` says.
Stream_read_some(stream, empty) ==
    IF stream = <<>> /\ empty = "WouldBlock"
    THEN [ret |-> RetErr("WouldBlock"), out |-> <<>>, stream |-> stream]
    ELSE LET n == Min(Len(stream), PROCESSOR_READ_SIZE)
         IN  [ret |-> RetOk(n), out |-> Take(stream, n), stream |-> Drop(stream, n)]

\* CommandProcessor::read_all_command: read_commmand is called until it gives
\* no command, the commands going to the local vector `store`; an error of
\* read_commmand is returned as it is.  taken is the number of commands the
\* call removed from read_buffer.
RECURSIVE CommandProcessor_read_all_command(_, _, _, _, _)
CommandProcessor_read_all_command(cur, buffer, stream, empty, store) ==
    LET rd == Stream_read_some(stream, empty)
        r == CommandProcessor_read_commmand(cur, buffer, rd)
        rest == IF r.did_read THEN rd.stream ELSE stream
    IN  IF r.ret.kind = "some"
        THEN CommandProcessor_read_all_command(r.current, r.read_buffer, rest, empty,
                                               Append(store, r.ret.value))
        ELSE [current |-> r.current, read_buffer |-> r.read_buffer, stream |-> rest,
              ret |-> IF r.ret.kind = "none" THEN RetOk(store) ELSE r.ret,
              taken |-> Len(store)]

\* The commands the peer writes: data_size is the length of the data.
ReadAllCommands == {c \in SizedCommands : c.header.data_size = Len(c.data)}

\* A CommandProcessor reading from a stream a peer writes commands to.
InitReadAll ==
    /\ scenario = "read_all"
    /\ AppIdle
    /\ CommandIdle
    /\ LayerIdle
    /\ IoIdle
    /\ sent = <<>>
    /\ moved = 0
    /\ received = <<>>
    /\ lastRet = NoRet

\* The peer writes a command to the stream with write_command.
ReadAll_peer_write(command) ==
    /\ scenario = "read_all"
    /\ Len(sent) < MaxSends
    /\ in_flight' = in_flight \o WriteCommand_write_command(command).bytes
    /\ sent' = Append(sent, command)
    /\ UNCHANGED <<scenario, appVars, commandVars, layerVars, sessionVars, crypto,
                   transport, streamVars, legacyVars, moved, received, lastRet>>

\* The sizes of what arrives at once: a part of a head, a whole command of
\* the model and one more byte, or all that is in flight.
ReadAllCuts(b) == {n \in {MaxChunk, HEAD_SIZE + 6, Len(b)} : 1 <= n /\ n <= Len(b)}

\* The next n bytes arrive at the processor's stream.
ReadAll_arrive(n) ==
    /\ scenario = "read_all"
    /\ n <= Len(in_flight)
    /\ transport' = transport \o Take(in_flight, n)
    /\ in_flight' = Drop(in_flight, n)
    /\ UNCHANGED <<scenario, appVars, commandVars, layerVars, sessionVars, crypto,
                   streamVars, legacyVars, sent, moved, received, lastRet>>

\* processor.read_all_command().  Here moved counts the commands the
\* processor removed from its read_buffer, and received holds the commands
\* of the vectors the calls returned.
ReadAll_read_all_command(empty) ==
    /\ scenario = "read_all"
    /\ \E r \in {CommandProcessor_read_all_command(processor_current, processor_read_buffer,
                                                   transport, empty, <<>>)} :
          /\ processor_current' = r.current
          /\ processor_read_buffer' = r.read_buffer
          /\ transport' = r.stream
          /\ lastRet' = r.ret
          /\ moved' = moved + r.taken
          /\ received' = IF r.ret.kind = "ok" THEN received \o r.ret.value ELSE received
    /\ UNCHANGED <<scenario, current_command, the_header, serverVars, networkVars, commandVars,
                   layerVars, sessionVars, crypto, in_flight, streamVars, legacyVars, sent>>

NextReadAll ==
    \/ \E command \in ReadAllCommands : ReadAll_peer_write(command)
    \/ \E n \in ReadAllCuts(in_flight) : ReadAll_arrive(n)
    \/ \E empty \in {"Eof", "WouldBlock"} : ReadAll_read_all_command(empty)

SpecReadAll == InitReadAll /\ [][NextReadAll]_vars

(***************************************************************************)
(* SecureClientStream of io.rs writing to a stream whose writes may fail.  *)
(***************************************************************************)
\* The numbers of bytes the stream accepts during one write_all before a
\* write fails; with MaxInt it takes all the bytes.
Quotas == {3, MaxInt}

\* Write::write_all(bytes) on a stream that accepts quota bytes and then
\* fails: the bytes that reached the stream, and whether Ok(()) is returned.
Write_write_all(bytes, quota) ==
    [out |-> Take(bytes, Min(quota, Len(bytes))), ok |-> quota >= Len(bytes)]

\* write_handshake of secure.rs on such a stream, whole being the bytes of
\* the header and the key:
\* `self.write_all(&data).and(self.write_all(&mut encrypted))?`.  The
\* argument of `and` is evaluated before `and` is called: the key is written
\* whatever the first write_all returned, and the call fails when either
\* failed.
write_handshake_io(whole, q_head, q_key) ==
    LET data == Write_write_all(Take(whole, SECURE_HANDSHAKE_HEAD_SIZE), q_head)
        encrypted == Write_write_all(Drop(whole, SECURE_HANDSHAKE_HEAD_SIZE), q_key)
    IN  [bytes |-> data.out \o encrypted.out, ok |-> data.ok /\ encrypted.ok]

\* SecureStream::write of io.rs on such a stream, whole being what it writes
\* and returns when no write fails: write_encrypt_header, then write_all of
\* the encrypted data, each returning at once when it fails.
Legacy_SecureStream_write_io(whole, q_head, q_data) ==
    LET head == Write_write_all(Take(whole.bytes, SECURE_HEAD_SIZE), q_head)
        data == Write_write_all(Drop(whole.bytes, SECURE_HEAD_SIZE), q_data)
    IN  IF ~head.ok THEN [bytes |-> head.out, ret |-> RetErr("Io")]
        ELSE IF ~data.ok THEN [bytes |-> head.out \o data.out, ret |-> RetErr("Io")]
        ELSE [bytes |-> whole.bytes, ret |-> RetOk(whole.ret)]

\* A faulty variant of SecureClientStream::write: handshaked is set before
\* write_handshake is called.
SecureClientStream_write_io_early(is_handshaked, preamble, packet, q) ==
    LET hs == IF ~is_handshaked THEN write_handshake_io(preamble, q[1], q[2])
              ELSE [bytes |-> <<>>, ok |-> TRUE]
        inner == Legacy_SecureStream_write_io(packet, q[3], q[4])
    IN  IF ~hs.ok
        THEN [handshake |-> hs.bytes, packet |-> <<>>, handshaked |-> TRUE,
              ret |-> RetErr("Io")]
        ELSE [handshake |-> hs.bytes, packet |-> inner.bytes, handshaked |-> TRUE,
              ret |-> inner.ret]

\* SecureClientStream::write on such a stream, preamble and packet being
\* what write_handshake and the inner write produce and q the quotas of the
\* write_all calls: `if !self.handshaked { write_handshake(..)?;
\* self.handshaked = true; } self.inner.write(buf)`.  handshake and packet
\* are the bytes the call wrote of each.
SecureClientStream_write_io(is_handshaked, preamble, packet, q) ==
    LET hs == IF ~is_handshaked THEN write_handshake_io(preamble, q[1], q[2])
              ELSE [bytes |-> <<>>, ok |-> TRUE]
        inner == Legacy_SecureStream_write_io(packet, q[3], q[4])
    IN  IF ~hs.ok
        THEN [handshake |-> hs.bytes, packet |-> <<>>, handshaked |-> is_handshaked,
              ret |-> RetErr("Io")]
        ELSE [handshake |-> hs.bytes, packet |-> inner.bytes, handshaked |-> TRUE,
              ret |-> inner.ret]

\* SecureClientStream::new(crypto, key, stream)
InitFailingClient ==
    /\ scenario = "failing_client"
    /\ AppIdle
    /\ CommandIdle
    /\ LayerIdle
    /\ usize_bytes = 8
    /\ crypto \in Keys
    /\ transport = <<>>
    /\ in_flight = <<>>
    /\ current_handshake = None
    /\ StreamIdle
    /\ LegacyIdle
    /\ sent = <<>>
    /\ moved = 0
    /\ received = <<>>
    /\ lastRet = NoRet

\* client_stream.write(buf), the stream accepting during each write_all one
\* of the Quotas.  sent holds, for each call, its arguments, handshaked
\* before and after it, the preamble write_handshake makes for it and the
\* bytes it wrote.
FailingClient_write(key, seed, buf, iv) ==
    /\ scenario = "failing_client"
    /\ Len(sent) < MaxSends
    /\ \E preamble \in {write_handshake(crypto, Legacy_RsaOaepSha1Mgf1Sha1, AesCfb128,
                                        key, seed)},
          packet \in {Legacy_SecureStream_write(crypto, buf, iv)} :
       \E q \in [1..4 -> Quotas] :
       \E r \in {SecureClientStream_write_io(legacy_handshaked, preamble, packet, q)} :
          /\ in_flight' = in_flight \o r.handshake \o r.packet
          /\ legacy_handshaked' = r.handshaked
          /\ lastRet' = r.ret
          /\ sent' = Append(sent, [data |-> buf, iv |-> iv, key |-> key, seed |-> seed,
                                   was_handshaked |-> legacy_handshaked,
                                   handshaked |-> r.handshaked, preamble |-> preamble,
                                   handshake |-> r.handshake, packet |-> r.packet,
                                   ret |-> r.ret])
    /\ UNCHANGED <<scenario, appVars, commandVars, layerVars, sessionVars, crypto, transport,
                   streamVars, legacy_current, legacy_read_buffer,
                   legacy_decrypted_buffer, moved, received>>

NextFailingClient ==
    \E key \in RsaPublicKeys, buf \in {<<1, 2, 3, 4>>, <<>>} :
        FailingClient_write(key, 3, buf, IvA)

SpecFailingClient == InitFailingClient /\ [][NextFailingClient]_vars

(***************************************************************************)
(* SecureStream of secure/stream.rs writing to a stream whose writes may   *)
(* fail after a part of a packet was taken.                                *)
(***************************************************************************)
\* WriteStreamState: Head(written, buf, encrypted_data) and Data(written, data).
WriteHead(written, buf, encrypted_data) ==
    [tag |-> "Head", written |-> written, buf |-> buf, data |-> encrypted_data]
WriteData(written, data) == [tag |-> "Data", written |-> written, buf |-> <<>>, data |-> data]

\* The loop `while *written != buf.len() { *written += stream.write(..)? }`
\* over a stream that takes quota more bytes and then fails: the bytes that
\* went to the stream, the count written and whether the loop ended.
DrainTo(buf, written, quota) ==
    LET n == Min(Len(buf) - written, quota)
    IN  [out |-> SubSeq(buf, written + 1, written + n), written |-> written + n,
         ok |-> written + n = Len(buf), quota |-> quota - n]

\* SecureStream::write_packet(buf) with the IV gen_random yields, on a stream
\* that takes quota bytes during the call and then fails with WouldBlock.  A
\* packet is made from buf only when current_write is None; Ok(buf.len()) is
\* returned when the data of the current packet is written.  bytes is what
\* went to the stream.
SecureStream_write_packet_io(aes_key, state, buf, iv, quota) ==
    LET start == IF state = None
                 THEN WriteHead(0, ToLeBytes(AsU32(Len(buf) + 16), 4) \o iv,
                                Aes128CfbEnc(aes_key, iv, buf))
                 ELSE state
        head == IF start.tag = "Head" THEN DrainTo(start.buf, start.written, quota)
                ELSE [out |-> <<>>, written |-> 0, ok |-> TRUE, quota |-> quota]
    IN  IF ~head.ok
        THEN [current_write |-> WriteHead(head.written, start.buf, start.data),
              bytes |-> head.out, ret |-> RetErr("WouldBlock")]
        ELSE LET data_state == IF start.tag = "Head" THEN WriteData(0, start.data) ELSE start
                 data == DrainTo(data_state.data, data_state.written, head.quota)
             IN  IF ~data.ok
                 THEN [current_write |-> WriteData(data.written, data_state.data),
                       bytes |-> head.out \o data.out, ret |-> RetErr("WouldBlock")]
                 ELSE [current_write |-> None, bytes |-> head.out \o data.out,
                       ret |-> RetOk(Len(buf))]

\* SecureStream::new(crypto, stream)
InitInterruptedWrite ==
    /\ scenario = "interrupted_write"
    /\ AppIdle
    /\ CommandIdle
    /\ LayerIdle
    /\ usize_bytes = 8
    /\ crypto = KeyA
    /\ transport = <<>>
    /\ in_flight = <<>>
    /\ current_handshake = None
    /\ StreamIdle
    /\ LegacyIdle
    /\ sent = <<>>
    /\ moved = 0
    /\ received = <<>>
    /\ lastRet = NoRet

\* The numbers of bytes the stream takes during one call: a part of a head,
\* a head and a part of the data, or all the bytes.
WriteQuotas == {3, SECURE_HEAD_SIZE + 1, MaxInt}

\* stream.write(buf).  sent holds, for each call, its arguments, whether a
\* packet was pending when it was made, the bytes that went to the stream
\* and what it returned.
InterruptedWrite_write(buf, iv, quota) ==
    /\ scenario = "interrupted_write"
    /\ Len(sent) < MaxOps
    /\ \E r \in {SecureStream_write_packet_io(crypto, current_write, buf, iv, quota)} :
          /\ current_write' = r.current_write
          /\ in_flight' = in_flight \o r.bytes
          /\ lastRet' = r.ret
          /\ sent' = Append(sent, [data |-> buf, iv |-> iv, pending |-> current_write # None,
                                   bytes |-> r.bytes, ret |-> r.ret])
    /\ UNCHANGED <<scenario, appVars, commandVars, layerVars, sessionVars, crypto, transport,
                   current_read, read_buf, read_pc, current_packet, legacyVars, moved,
                   received>>

NextInterruptedWrite ==
    \E buf \in Bufs, iv \in DrawnIvs(Len(sent) + 1), quota \in WriteQuotas :
        InterruptedWrite_write(buf, iv, quota)

SpecInterruptedWrite == InitInterruptedWrite /\ [][NextInterruptedWrite]_vars

(***************************************************************************)
(* SecureStream of secure/stream/mod.rs reading packets from a             *)
(* non-blocking stream that a peer of its kind writes to.                  *)
(***************************************************************************)
\* decode_secure_head: the outcomes the builds give.  The packet holds the
\* iv of the header and data, a zeroed buffer of data_size - 16 bytes, kept
\* as its length.  With data_size below 16 the subtraction of u32 panics
\* where overflow is checked and wraps where it is not.
decode_secure_head(buf) ==
    LET data_size == U32FromLeBytes(SubSeq(buf, 1, 4))
    IN  IF data_size >= 16
        THEN { [tag |-> "Some", iv |-> SubSeq(buf, 5, 20), size |-> data_size - 16] }
        ELSE { [tag |-> "panic", iv |-> SubSeq(buf, 5, 20), size |-> 0],
               [tag |-> "Some", iv |-> SubSeq(buf, 5, 20), size |-> MaxInt] }

\* The rest of read_packet once the packet is at hand: the data is read with
\* read_exact into packet.data from its start, and the packet goes back to
\* current_packet when that fails.
PacketStream_read_data(aes_key, packet, stream) ==
    IF packet.tag = "panic"
    THEN { [current_packet |-> None, stream |-> stream, ret |-> RetPanic] }
    ELSE { IF ~d.ok
           THEN [current_packet |-> packet, stream |-> d.stream, ret |-> RetErr("WouldBlock")]
           ELSE [current_packet |-> None, stream |-> d.stream,
                 ret |-> RetOk(Aes128CfbDec(aes_key, packet.iv, d.buf))] :
             d \in ReadExact(stream, packet.size) }

\* SecureStream::read_packet of secure/stream/mod.rs: the outcomes of one
\* call.  current_packet is taken; when it held nothing the head is read
\* with read_exact into a local buffer and decoded.
PacketStream_read_packet(aes_key, cur, stream) ==
    IF cur # None THEN PacketStream_read_data(aes_key, cur, stream)
    ELSE UNION {
        IF ~h.ok
        THEN { [current_packet |-> None, stream |-> h.stream, ret |-> RetErr("WouldBlock")] }
        ELSE UNION { PacketStream_read_data(aes_key, packet, h.stream) :
                        packet \in decode_secure_head(h.buf) } :
        h \in ReadExact(stream, SECURE_HEAD_SIZE) }

\* SecureStream::new(crypto, stream) on both ends.
InitPacketStream ==
    /\ scenario = "packet_stream"
    /\ AppIdle
    /\ CommandIdle
    /\ LayerIdle
    /\ usize_bytes = 8
    /\ crypto = KeyA
    /\ transport = <<>>
    /\ in_flight = <<>>
    /\ current_handshake = None
    /\ StreamIdle
    /\ LegacyIdle
    /\ sent = <<>>
    /\ moved = 0
    /\ received = <<>>
    /\ lastRet = NoRet

\* The peer's write_data(buf): gen_random yields iv.
PacketStream_write_data(buf, iv) ==
    /\ scenario = "packet_stream"
    /\ Len(sent) < MaxSends
    /\ \E r \in {to_encrypted_packet(crypto, buf, iv)} :
          /\ in_flight' = in_flight \o r.bytes
          /\ sent' = Append(sent, [data |-> buf, iv |-> iv, bytes |-> r.bytes])
    /\ lastRet' = NoRet
    /\ UNCHANGED <<scenario, appVars, commandVars, layerVars, sessionVars, crypto, transport,
                   streamVars, legacyVars, moved, received>>

\* The sizes of what arrives at once: a part of a head, a head and one more
\* byte, or all that is in flight.
PacketCuts(b) == {n \in {MaxChunk, SECURE_HEAD_SIZE + 1, Len(b)} : 1 <= n /\ n <= Len(b)}

\* The next n bytes arrive at the reading end.
PacketStream_arrive(n) ==
    /\ scenario = "packet_stream"
    /\ n <= Len(in_flight)
    /\ transport' = transport \o Take(in_flight, n)
    /\ in_flight' = Drop(in_flight, n)
    /\ lastRet' = NoRet
    /\ UNCHANGED <<scenario, appVars, commandVars, layerVars, sessionVars, crypto,
                   streamVars, legacyVars, sent, moved, received>>

\* stream.read_packet() at the reading end.  moved counts the bytes the
\* calls took from the stream, received holds the data of the packets they
\* returned.
PacketStream_call_read_packet ==
    /\ scenario = "packet_stream"
    /\ \E r \in PacketStream_read_packet(crypto, current_packet, transport) :
          /\ current_packet' = r.current_packet
          /\ transport' = r.stream
          /\ lastRet' = r.ret
          /\ moved' = moved + (Len(transport) - Len(r.stream))
          /\ received' = IF r.ret.kind = "ok" THEN Append(received, r.ret.value)
                         ELSE received
    /\ UNCHANGED <<scenario, appVars, commandVars, layerVars, sessionVars, crypto, in_flight,
                   current_read, read_buf, current_write, read_pc, legacyVars, sent>>

NextPacketStream ==
    \/ \E buf \in Bufs, iv \in DrawnIvs(Len(sent) + 1) : PacketStream_write_data(buf, iv)
    \/ \E n \in PacketCuts(in_flight) : PacketStream_arrive(n)
    \/ PacketStream_call_read_packet

SpecPacketStream == InitPacketStream /\ [][NextPacketStream]_vars

(***************************************************************************)
(* SecureStream::read_packet of secure/stream.rs, one evaluation of its    *)
(* loops at a time, on a stream whose peer may close it.                   *)
(***************************************************************************)
\* The peer closed the stream: a read finds the end of the stream once the
\* bytes that arrived are taken.
PeerClosed == sent # <<>> /\ sent[Len(sent)].kind = "close"

\* SecureStream::new(crypto, stream) on both ends.
InitEof ==
    /\ scenario = "eof"
    /\ AppIdle
    /\ CommandIdle
    /\ LayerIdle
    /\ usize_bytes = 8
    /\ crypto = KeyA
    /\ transport = <<>>
    /\ in_flight = <<>>
    /\ current_handshake = None
    /\ StreamIdle
    /\ LegacyIdle
    /\ sent = <<>>
    /\ moved = 0
    /\ received = <<>>
    /\ lastRet = NoRet

\* The numbers of bytes of a packet that the peer's stream takes: a part of
\* the head, the head and a part of the data, or the packet.
EofCuts(b) == {Min(n, Len(b)) : n \in {3, SECURE_HEAD_SIZE + 1, Len(b)}}

\* The peer's write_packet(buf), of which n bytes go to the stream.
Eof_peer_write(buf, iv, n) ==
    /\ scenario = "eof"
    /\ Len(sent) < MaxSends
    /\ ~PeerClosed
    /\ sent # <<>> => sent[Len(sent)].whole
    /\ \E r \in {SecureStream_write_packet(crypto, buf, iv)} :
          /\ n <= Len(r.bytes)
          /\ in_flight' = in_flight \o Take(r.bytes, n)
          /\ sent' = Append(sent, [kind |-> "write", data |-> buf, iv |-> iv,
                                   whole |-> n = Len(r.bytes)])
    /\ UNCHANGED <<scenario, appVars, commandVars, layerVars, sessionVars, crypto, transport,
                   streamVars, legacyVars, moved, received, lastRet>>

\* The peer closes the stream, or its process ends.
Eof_peer_close ==
    /\ scenario = "eof"
    /\ sent # <<>>
    /\ ~PeerClosed
    /\ sent' = Append(sent, [kind |-> "close", data |-> <<>>, iv |-> IvZero, whole |-> FALSE])
    /\ UNCHANGED <<scenario, appVars, commandVars, layerVars, ioVars, moved, received,
                   lastRet>>

\* The next n bytes arrive at the reading end.
Eof_arrive(n) ==
    /\ scenario = "eof"
    /\ n <= Len(in_flight)
    /\ transport' = transport \o Take(in_flight, n)
    /\ in_flight' = Drop(in_flight, n)
    /\ UNCHANGED <<scenario, appVars, commandVars, layerVars, sessionVars, crypto,
                   streamVars, legacyVars, sent, moved, received, lastRet>>

\* read_packet() is called: `if self.current_read.is_none() { .. }`.
Eof_call_read_packet ==
    /\ scenario = "eof"
    /\ read_pc = "idle"
    /\ read_pc' = "loop"
    /\ current_read' = IF current_read = None THEN ReadHead(<<>>) ELSE current_read
    /\ lastRet' = NoRet
    /\ UNCHANGED <<scenario, appVars, commandVars, layerVars, sessionVars, pipeVars,
                   read_buf, current_write, current_packet, legacyVars, sent, moved,
                   received>>

\* One evaluation of `while *read != buf.len() { *read +=
\* self.stream.read(&mut buf[*read..])?; }` or of what follows the loop.  A
\* read takes the bytes that arrived; with none it fails with WouldBlock,
\* and at the end of the stream it returns 0.  moved is the parity of the
\* number of reads that returned 0.
Eof_loop ==
    /\ scenario = "eof"
    /\ read_pc = "loop"
    /\ IF Len(current_read.buf) = current_read.size
       THEN IF current_read.tag = "Head"
            THEN /\ current_read' =
                        ReadData(SubSeq(current_read.buf, 5, 20),
                                 U32FromLeBytes(SubSeq(current_read.buf, 1, 4))
                                     - SECURE_HEADER_SIZE,
                                 <<>>)
                 /\ UNCHANGED <<read_pc, lastRet, received, transport, moved>>
            ELSE /\ current_read' = None
                 /\ read_pc' = "idle"
                 /\ \E chunk \in {Aes128CfbDec(crypto, current_read.iv, current_read.buf)} :
                       /\ lastRet' = RetOk(chunk)
                       /\ received' = Append(received, chunk)
                 /\ UNCHANGED <<transport, moved>>
       ELSE IF transport # <<>>
            THEN /\ \E r \in {FillFrom(current_read.buf, current_read.size, transport)} :
                       /\ current_read' = [current_read EXCEPT !.buf = r.buf]
                       /\ transport' = r.stream
                 /\ UNCHANGED <<read_pc, lastRet, received, moved>>
            ELSE IF PeerClosed /\ in_flight = <<>>
            THEN /\ moved' = 1 - moved
                 /\ UNCHANGED <<current_read, read_pc, lastRet, received, transport>>
            ELSE /\ read_pc' = "idle"
                 /\ lastRet' = RetErr("WouldBlock")
                 /\ UNCHANGED <<current_read, received, transport, moved>>
    /\ UNCHANGED <<scenario, appVars, commandVars, layerVars, sessionVars, crypto, in_flight,
                   read_buf, current_write, current_packet, legacyVars, sent>>

NextEof ==
    \/ \E buf \in {<<1, 2, 3, 4>>, <<>>}, iv \in DrawnIvs(Len(sent) + 1) :
          \E n \in EofCuts(SecureStream_write_packet(crypto, buf, iv).bytes) :
              Eof_peer_write(buf, iv, n)
    \/ Eof_peer_close
    \/ \E n \in DeliverSizes(in_flight) : Eof_arrive(n)
    \/ Eof_call_read_packet
    \/ Eof_loop

SpecEof == InitEof /\ [][NextEof]_vars

\* The thread that called read_packet runs, and the bytes in flight arrive.
FairEof ==
    /\ SpecEof
    /\ WF_vars(Eof_loop)
    /\ WF_vars(\E n \in DeliverSizes(in_flight) : Eof_arrive(n))

(***************************************************************************)
(* The instances: the caller drives one of them.                           *)
(***************************************************************************)
\* The IO-free core: the command sink and stream, and the secure layer.
InitCore == InitCommand \/ InitSecure

NextCore == NextCommand \/ NextSecure

SpecCore == InitCore /\ [][NextCore]_vars

Init == InitCore \/ InitSession \/ InitLegacyClient \/ InitStream
            \/ InitSink \/ InitHeader \/ InitProcessor
            \/ InitIntegration \/ InitNetwork \/ InitCodec \/ InitReadAll
            \/ InitFailingClient \/ InitInterruptedWrite \/ InitPacketStream
            \/ InitEof

Next == NextCore \/ NextSession \/ NextLegacyClient \/ NextStream
            \/ NextSink \/ NextHeader \/ NextProcessor
            \/ NextIntegration \/ NextNetwork \/ NextCodec \/ NextReadAll
            \/ NextFailingClient \/ NextInterruptedWrite \/ NextPacketStream
            \/ NextEof

Spec == Init /\ [][Next]_vars

(***************************************************************************)
(* Properties of the command sink and stream.                              *)
(***************************************************************************)
\* Byte k (0 the least significant) of the two's complement of v.
LeByte(v, k) == (v \div (IF k = 0 THEN 1 ELSE IF k = 1 THEN 256
                         ELSE IF k = 2 THEN 65536 ELSE 16777216)) % 256

\* The length of the frame of command c.
FrameLen(c) == 22 + Len(c.data)

\* The total length of the frames of the first k commands sent.
RECURSIVE FramesLen(_)
FramesLen(k) == IF k = 0 THEN 0 ELSE FramesLen(k - 1) + FrameLen(sent[k])

\* The number of frames that lie wholly within the first m bytes written.
CompleteFrames(m) == Cardinality({k \in 1..Len(sent) : FramesLen(k) <= m})

\* The frames of the commands sent from the k-th on, one after another.
RECURSIVE FramesFrom(_)
FramesFrom(k) ==
    IF k > Len(sent) THEN <<>>
    ELSE LocoSink_send(<<>>, sent[k]) \o FramesFrom(k + 1)

\* A step of stream.read() that returned (None or Some).
ReadReturns == scenario = "command" /\ lastRet'.kind \in {"none", "some"}

\* C1: Command round-trip.  Every command a read() returns equals the command
\* passed to the send call of the same rank, header field by header field
\* and payload byte by payload byte; and once the whole write buffer has
\* been moved to the stream, read() returns None only after it has returned
\* every command sent.
C1_RoundTrip ==
    scenario = "command" =>
        /\ Len(received) <= Len(sent)
        /\ \A i \in 1..Len(received) :
               /\ received[i].header.id = sent[i].header.id
               /\ received[i].header.status = sent[i].header.status
               /\ received[i].header.method = sent[i].header.method
               /\ received[i].header.data_type = sent[i].header.data_type
               /\ received[i].data = sent[i].data
        /\ (sink_write_buffer = <<>> /\ lastRet.kind = "none")
               => Len(received) = Len(sent)

\* The test of tests/client.rs: one command sent, moved, and read back, with
\* negative and multi-byte header fields among the commands read back.
C1_Witness ==
    /\ scenario = "command"
    /\ Len(received) >= 2
    /\ lastRet.kind = "some"
    /\ \E i \in 1..Len(received) : received[i].header.status < 0
    /\ \E i \in 1..Len(received) : received[i].data = <<1, 2, 3>>

\* C2: Fragmented parse.  Whatever the chunks in which the bytes arrive: no
\* command is returned before its last byte has arrived, a read() that
\* returns None has returned every command whose last byte has arrived (so
\* the read() after the last byte returns the command), the command is
\* returned once, and the parser is Pending after returning it.
C2_Fragmented ==
    scenario = "command" =>
        /\ Len(received) <= CompleteFrames(moved)
        /\ lastRet.kind = "none" => Len(received) = CompleteFrames(moved)
        /\ lastRet.kind = "some" =>
               /\ stream_state = StatePending
               /\ lastRet.value = sent[Len(received)]
        /\ \A i, j \in 1..Len(received) : (i # j /\ received[i] = received[j])
               => sent[i] = sent[j]

\* A command with a payload returned by the read() made right after its last
\* byte arrived, the bytes before having arrived in other chunks.
C2_Witness ==
    /\ scenario = "command"
    /\ Len(sent) = 1
    /\ sent[1].data = <<1, 2, 3>>
    /\ moved = 25
    /\ sink_write_buffer = <<>>
    /\ lastRet.kind = "some"
    /\ received = sent
    /\ stream_state = StatePending

\* C3: Ordering.  write_buffer holds the frames of the commands sent, in call
\* order and without gaps, less the bytes moved out of it; the stream returns
\* the commands in the order sent, one per call: after a call that returned
\* a command the frames not yet returned are still buffered, and a read()
\* made when every command sent has been returned returns None.
C3_Ordering ==
    scenario = "command" =>
        /\ Len(received) <= Len(sent)
        /\ sink_write_buffer = Drop(FramesFrom(1), moved)
        /\ received = SubSeq(sent, 1, Len(received))
        /\ stream_state.tag = "Pending"
               => stream_read_buffer
                      = SubSeq(FramesFrom(1), FramesLen(Len(received)) + 1, moved)
        /\ stream_state.tag = "Header"
               => stream_read_buffer
                      = SubSeq(FramesFrom(1), FramesLen(Len(received)) + 23, moved)

\* Two different commands sent and both frames moved whole to the stream; a
\* read() has returned the first command and the frame of the second is
\* still buffered.
C3_Witness ==
    /\ scenario = "command"
    /\ Len(sent) >= 2
    /\ sent[1] # sent[2]
    /\ sink_write_buffer = <<>>
    /\ received = <<sent[1]>>
    /\ lastRet.kind = "some"
    /\ stream_read_buffer = LocoSink_send(<<>>, sent[2])

\* C4: Command frame layout.  Every send(command) appends exactly
\* 22 + len(payload) bytes to write_buffer: id (4 bytes), status (2),
\* method (11), data_type (1), little-endian, then the payload length as 4
\* little-endian bytes, then the payload unchanged.
C4_FrameLayoutStep ==
    (scenario = "command" /\ Len(sent') = Len(sent) + 1) =>
        LET c == sent'[Len(sent')]
            old == sink_write_buffer
            f == Drop(sink_write_buffer', Len(old))
        IN  /\ Len(sink_write_buffer') = Len(old) + 22 + Len(c.data)
            /\ Take(sink_write_buffer', Len(old)) = old
            /\ \A k \in 0..3 : f[k + 1] = LeByte(c.header.id, k)
            /\ \A k \in 0..1 : f[k + 5] = LeByte(c.header.status, k)
            /\ SubSeq(f, 7, 17) = c.header.method
            /\ f[18] = LeByte(c.header.data_type, 0)
            /\ \A k \in 0..3 : f[k + 19] = LeByte(Len(c.data), k)
            /\ Drop(f, 22) = c.data

C4_FrameLayout == [][C4_FrameLayoutStep]_vars

\* A second frame appended behind a first one, with multi-byte header fields.
C4_Witness ==
    /\ scenario = "command"
    /\ Len(sent) = 2
    /\ moved = 0
    /\ sent[2].header.id = 258
    /\ sent[1].data = <<1, 2, 3>>
    /\ Len(sink_write_buffer) = 47

\* C5: A read() that returns None has drained nothing and left the state as
\* it was, or has drained exactly the 22 head bytes and gone from Pending
\* to Header with the head decoded from them; it never drains payload bytes.
\* A later call starting in Header(raw) takes its header and payload length
\* from raw and drains payload bytes only, not a head.
C5_NoneDrainsStep ==
    /\ (scenario = "command" /\ lastRet'.kind = "none") =>
           \/ /\ stream_read_buffer' = stream_read_buffer
              /\ stream_state' = stream_state
           \/ /\ stream_state.tag = "Pending"
              /\ stream_state'.tag = "Header"
              /\ Len(stream_read_buffer) >= 22
              /\ stream_read_buffer' = Drop(stream_read_buffer, 22)
              /\ EncodeRawHeader(stream_state'.raw) = Take(stream_read_buffer, 22)
              /\ Len(stream_read_buffer') < stream_state'.raw.data_size
    /\ (ReadReturns /\ stream_state.tag = "Header") =>
           \/ lastRet'.kind = "none" /\ stream_state' = stream_state
           \/ /\ lastRet'.kind = "some"
              /\ lastRet'.value.header = stream_state.raw.header
              /\ Len(lastRet'.value.data) = stream_state.raw.data_size
              /\ stream_read_buffer = lastRet'.value.data \o stream_read_buffer'

C5_NoneDrains == [][C5_NoneDrainsStep]_vars

\* A read() returned None having parsed the head, part of the payload is
\* buffered and stays there.
C5_Witness ==
    /\ scenario = "command"
    /\ lastRet.kind = "none"
    /\ stream_state.tag = "Header"
    /\ stream_state.raw.data_size = 5
    /\ Len(stream_read_buffer) = 4

\* C6: Head boundary.  With exactly 21 bytes buffered a read() in Pending
\* returns None and drains nothing; with exactly 22 bytes buffered it
\* returns the command with an empty payload and stays Pending when the
\* four size bytes are zero, and returns None in state Header otherwise.
C6_HeadBoundaryStep ==
    (ReadReturns /\ stream_state.tag = "Pending") =>
        /\ Len(stream_read_buffer) = 21 =>
               /\ lastRet'.kind = "none"
               /\ stream_read_buffer' = stream_read_buffer
               /\ stream_state' = StatePending
        /\ Len(stream_read_buffer) = 22 =>
               IF \A k \in 19..22 : stream_read_buffer[k] = 0
               THEN /\ lastRet'.kind = "some"
                    /\ lastRet'.value.data = <<>>
                    /\ stream_state' = StatePending
                    /\ stream_read_buffer' = <<>>
               ELSE /\ lastRet'.kind = "none"
                    /\ stream_state'.tag = "Header"
                    /\ stream_state'.raw.data_size > 0
                    /\ stream_read_buffer' = <<>>

C6_HeadBoundary == [][C6_HeadBoundaryStep]_vars

\* Exactly 22 bytes have arrived, of a command without payload, and the
\* read() returned it.
C6_Witness ==
    /\ scenario = "command"
    /\ moved = 22
    /\ lastRet.kind = "some"
    /\ lastRet.value.data = <<>>
    /\ stream_state = StatePending

(***************************************************************************)
(* Properties of the secure layer, and of both.                            *)
(***************************************************************************)
\* C7: Whenever a read() has returned (None or Some), the state of the
\* parser it leaves is Pending or Header, never Corrupted: for the command
\* stream and for the secure layer.  (Every head decodes: the heads hold
\* fixed-width integers and byte arrays only.)
C7_NeverCorrupted ==
    lastRet.kind \in {"none", "some"} =>
        /\ stream_state.tag \in {"Pending", "Header"}
        /\ layer_read_state.tag \in {"Pending", "Header"}

\* A read() of the secure layer returned None with a head announcing a size
\* below 16 held in Header.
C7_Witness ==
    /\ scenario = "client"
    /\ lastRet.kind = "none"
    /\ layer_read_state.tag = "Header"
    /\ layer_read_state.raw.size < 16

\* s is what is left of t after removing a prefix.
IsSuffix(s, t) == Len(s) <= Len(t) /\ Drop(t, Len(t) - Len(s)) = s

\* The step is one the caller makes on the buffers: moving bytes out of a
\* write buffer, or filling the read buffer.
CallerMoves ==
    \/ moved' # moved
    \/ /\ scenario = "client"
       /\ Len(sent') = Len(sent) + 1
       /\ sent'[Len(sent')].kind = "peer"

\* C8: Buffer discipline.  Every operation of the sink, the stream and the
\* secure layer keeps the content of write_buffer as a prefix of the new
\* content and leaves of read_buffer a suffix of its content; send and
\* handshake leave read_buffer and the read state unchanged; read leaves
\* write_buffer unchanged.
C8_BufferDisciplineStep ==
    ~CallerMoves =>
        /\ IsPrefix(sink_write_buffer, sink_write_buffer')
        /\ IsPrefix(layer_write_buffer, layer_write_buffer')
        /\ IsSuffix(stream_read_buffer', stream_read_buffer)
        /\ IsSuffix(layer_read_buffer', layer_read_buffer)
        /\ Len(sent') = Len(sent) + 1 =>
               /\ stream_read_buffer' = stream_read_buffer
               /\ stream_state' = stream_state
               /\ layer_read_buffer' = layer_read_buffer
               /\ layer_read_state' = layer_read_state
        /\ lastRet'.kind # "-" =>
               /\ sink_write_buffer' = sink_write_buffer
               /\ layer_write_buffer' = layer_write_buffer

C8_BufferDiscipline == [][C8_BufferDisciplineStep]_vars

\* A handshake made while a head is held in Header and bytes are buffered on
\* both sides.
C8_Witness ==
    /\ scenario = "client"
    /\ Len(sent) >= 3
    /\ sent[Len(sent)].kind = "handshake"
    /\ sent[Len(sent) - 1].kind = "packet"
    /\ layer_read_state.tag = "Header"
    /\ Len(layer_write_buffer) > 76
    /\ lastRet.kind = "-"

\* C9: Secure packet round-trip.  With the layer reading what it wrote under
\* its key, every packet a read() returns has the iv and the data of the
\* packet passed to the send call of the same rank, and once the whole
\* write buffer has been moved, read() returns None only after it has
\* returned every packet sent.
C9_SecureRoundTrip ==
    scenario = "loopback" =>
        /\ Len(received) <= Len(sent)
        /\ \A i \in 1..Len(received) :
               /\ received[i].iv = sent[i].packet.iv
               /\ received[i].data = sent[i].packet.data
        /\ (layer_write_buffer = <<>> /\ lastRet.kind = "none")
               => Len(received) = Len(sent)

\* Two packets read back, one of them longer than a cipher block, then None.
C9_Witness ==
    /\ scenario = "loopback"
    /\ layer_key # KeyZero
    /\ Len(received) >= 2
    /\ \E i \in 1..Len(received) : Len(received[i].data) > 16
    /\ \E i \in 1..Len(received) : received[i].data = <<0, 1, 2>>
    /\ lastRet.kind = "none"
    /\ layer_write_buffer = <<>>

\* C10: Secure packet layout.  Every send(packet) appends exactly
\* 20 + len(data) bytes: the size 16 + len(data) as 4 little-endian bytes,
\* the 16 iv bytes, then as many ciphertext bytes as there are data bytes,
\* which decrypt to the data under the key and the iv.
C10_SecureLayoutStep ==
    (scenario \in {"loopback", "client"} /\ Len(sent') = Len(sent) + 1
        /\ sent'[Len(sent')].kind = "packet") =>
        LET packet == sent'[Len(sent')].packet
            old == layer_write_buffer
            f == Drop(layer_write_buffer', Len(old))
        IN  /\ Len(layer_write_buffer') = Len(old) + 20 + Len(packet.data)
            /\ Take(layer_write_buffer', Len(old)) = old
            /\ \A k \in 0..3 : f[k + 1] = LeByte(16 + Len(packet.data), k)
            /\ SubSeq(f, 5, 20) = packet.iv
            /\ Len(Drop(f, 20)) = Len(packet.data)
            /\ Aes128CfbDec(layer_key, packet.iv, Drop(f, 20)) = packet.data
            /\ layer_encrypt_buffer' = <<>>

RECURSIVE SecureFramesLen(_)
SecureFramesLen(k) ==
    IF k = 0 THEN 0 ELSE SecureFramesLen(k - 1) + 20 + Len(sent[k].packet.data)

\* A step of layer.read() that returned (None or Some).
LayerReadReturns ==
    scenario \in {"loopback", "client"} /\ lastRet'.kind \in {"none", "some"}

\* C11: Secure fragmented read.  The bytes of the packets sent arrive in
\* chunks of any sizes, with read() calls in between.  A read() returns a
\* packet exactly when the last byte of the next packet not yet returned has
\* arrived; it then returns that packet, iv and decrypted data, and leaves
\* the state Pending.  A read() that returns None has drained nothing, or
\* the 20 head bytes only (Pending to Header): never ciphertext.
C11_SecureFragmentedStep ==
    (LayerReadReturns /\ scenario = "loopback") =>
        LET k == Len(received)
            arrived == k < Len(sent) /\ SecureFramesLen(k + 1) <= moved
        IN  /\ lastRet'.kind = "some" <=> arrived
            /\ lastRet'.kind = "some" =>
                   /\ lastRet'.value = sent[k + 1].packet
                   /\ layer_read_state' = ReadPending
                   /\ Len(layer_read_buffer') = moved - SecureFramesLen(k + 1)
            /\ lastRet'.kind = "none" =>
                   \/ /\ layer_read_buffer' = layer_read_buffer
                      /\ layer_read_state' = layer_read_state
                   \/ /\ layer_read_state = ReadPending
                      /\ layer_read_state'.tag = "Header"
                      /\ layer_read_buffer' = Drop(layer_read_buffer, 20)
                      /\ moved = SecureFramesLen(k) + 20 + Len(layer_read_buffer')

C11_SecureFragmented == [][C11_SecureFragmentedStep]_vars

\* A first packet has been returned; of the second, of 18 data bytes, the
\* head and 5 ciphertext bytes have arrived in chunks, a read() has parsed
\* the head and returned None, and the 5 bytes are still buffered.
C11_Witness ==
    /\ scenario = "loopback"
    /\ Len(sent) = 2
    /\ Len(sent[2].packet.data) = 18
    /\ received = <<sent[1].packet>>
    /\ moved = SecureFramesLen(1) + 25
    /\ lastRet.kind = "none"
    /\ layer_read_state.tag = "Header"
    /\ layer_read_state.raw.size = 34
    /\ Len(layer_read_buffer) = 5

\* C12: A head announcing size = 16.  The read() call that consumes the 20
\* bytes of a head whose size field is 16 returns a packet with the iv of
\* the head and empty data, drains the 20 head bytes and no more, and leaves
\* the state Pending.
C12_EmptyPacketStep ==
    (/\ scenario \in {"loopback", "client"}
     /\ lastRet'.kind # "-"
     /\ layer_read_state = ReadPending
     /\ Len(layer_read_buffer) >= 20
     /\ SubSeq(layer_read_buffer, 1, 4) = <<16, 0, 0, 0>>) =>
        /\ lastRet'.kind = "some"
        /\ lastRet'.value.iv = SubSeq(layer_read_buffer, 5, 20)
        /\ lastRet'.value.data = <<>>
        /\ layer_read_buffer' = Drop(layer_read_buffer, 20)
        /\ layer_read_state' = ReadPending

C12_EmptyPacket == [][C12_EmptyPacketStep]_vars

\* A head of size 16 written by the peer has been read as a packet without
\* data, the bytes behind it still buffered.
C12_Witness ==
    /\ scenario = "client"
    /\ lastRet.kind = "some"
    /\ lastRet.value = [iv |-> IvA, data |-> <<>>]
    /\ layer_read_state = ReadPending
    /\ Len(layer_read_buffer) = 20

\* C13: Minimum size.  A head announcing a size below 16 is malformed: the
\* reader does not go on waiting for bytes with that head held (a read()
\* does not return None in state Header with a size below 16), and returns
\* no packet for it.
C13_MinSizeRejected ==
    (scenario = "client" /\ lastRet.kind \in {"none", "some"}) =>
        ~(layer_read_state.tag = "Header" /\ layer_read_state.raw.size < BLOCK_SIZE)

(***************************************************************************)
(* Properties of the handshake.                                            *)
(***************************************************************************)
\* A step that emits a handshake, and the bytes it appended.
HandshakeEmitted ==
    /\ Len(sent') = Len(sent) + 1
    /\ sent'[Len(sent')].kind \in {"handshake", "handshake_write"}

HandshakeBytes ==
    IF scenario = "client"
    THEN Drop(layer_write_buffer', Len(layer_write_buffer))
    ELSE IF scenario = "legacy_client"
    THEN Drop(in_flight', Len(in_flight))
    ELSE Drop(transport', Len(transport))

\* The bytes of the length the emitter writes before the two type fields.
HandshakeSizeBytes == IF scenario = "session" THEN usize_bytes ELSE 4

\* The session key the emitting endpoint holds.
EmitterKey == IF scenario = "client" THEN layer_key ELSE crypto

\* C14: emitting the handshake appends exactly 12 + K bytes, K the length of
\* the wrapped key: K as four little-endian bytes, the four bytes of the key
\* type, the four bytes of the encrypt type, then the K bytes of the
\* wrapped key.
C14_HandshakeLayoutStep ==
    (HandshakeEmitted /\ scenario # "legacy_client") =>
        \E key \in RsaPublicKeys, seed \in OaepSeeds :
            /\ Len(HandshakeBytes) = 12 + key.size
            /\ SubSeq(HandshakeBytes, 1, 4) = ToLeBytes(key.size, 4)
            /\ SubSeq(HandshakeBytes, 13, 12 + key.size)
                   = RsaOaepEncrypt(key, seed, EmitterKey)

C14_HandshakeLayout == [][C14_HandshakeLayoutStep]_vars

\* C15: every handshake a client emits carries key_type = 15 and
\* encrypt_type = 2 after its length; the value 12 is never emitted.
C15_KeyTypeStep ==
    HandshakeEmitted =>
        /\ SubSeq(HandshakeBytes, HandshakeSizeBytes + 1, HandshakeSizeBytes + 4)
               = ToLeBytes(15, 4)
        /\ SubSeq(HandshakeBytes, HandshakeSizeBytes + 5, HandshakeSizeBytes + 8)
               = ToLeBytes(2, 4)

C15_KeyType == [][C15_KeyTypeStep]_vars

\* C16: the handshake is one-shot and precedes all secure packets: what a
\* client endpoint emits begins with one handshake preamble, and no second
\* preamble follows.
C16_OneShot ==
    (scenario \in {"loopback", "client", "session", "session_trait", "legacy_client"}
        /\ sent # <<>>) =>
        /\ sent[1].kind \in {"handshake", "handshake_write"}
        /\ \A i \in 2..Len(sent) : sent[i].kind \notin {"handshake", "handshake_write"}

\* The server performed one handshake over the bytes of one client handshake.
ServerHandshakeDone ==
    /\ scenario \in {"session", "session_trait"}
    /\ Len(sent) = 1
    /\ Len(received) = 1
    /\ lastRet = received[1]
    /\ moved > 0

\* C17: when the server performs its handshake over the bytes a client
\* holding session key K emitted, with the matching private key, and
\* succeeds, the key of the CryptoStore it returns equals K.
C17_ServerKey ==
    (ServerHandshakeDone /\ lastRet.kind = "ok") => lastRet.value = crypto

\* C18: the bytes written by the client handshake are accepted by the
\* server handshake holding the matching private key: it returns success
\* and has consumed exactly the bytes the client wrote.
C18_HandshakeAgreement ==
    ServerHandshakeDone => (lastRet.kind = "ok" /\ transport = <<>>)

(***************************************************************************)
(* Properties of the stream adapters.                                      *)
(***************************************************************************)
\* The concatenation of the buffers of the first k write calls.
RECURSIVE WrittenBytes(_)
WrittenBytes(k) == IF k = 0 THEN <<>> ELSE WrittenBytes(k - 1) \o sent[k].data

\* Every byte written has reached the reading end and has been returned:
\* nothing is in flight and the reader holds nothing.
Drained ==
    /\ in_flight = <<>>
    /\ transport = <<>>
    /\ StreamIdle
    /\ legacy_current = None
    /\ legacy_read_buffer = <<>>
    /\ legacy_decrypted_buffer = <<>>

StreamWrites ==
    /\ scenario \in {"adapter", "legacy_stream"}
    /\ Len(sent') = Len(sent) + 1

WrittenBuf == sent'[Len(sent')].data

EmittedBytes == Drop(in_flight', Len(in_flight))

\* C20: a write(bytes) call on a stream adapter that returns success has
\* emitted exactly one secure packet, whose size field is 16 + len(bytes)
\* and whose plaintext is all of bytes, and returns len(bytes).
C20_WriteOnePacketStep ==
    StreamWrites =>
        /\ Len(EmittedBytes) = SECURE_HEAD_SIZE + Len(WrittenBuf)
        /\ SubSeq(EmittedBytes, 1, 4) = ToLeBytes(16 + Len(WrittenBuf), 4)
        /\ Aes128CfbDec(crypto, SubSeq(EmittedBytes, 5, SECURE_HEAD_SIZE),
                        Drop(EmittedBytes, SECURE_HEAD_SIZE)) = WrittenBuf
        /\ lastRet' = RetOk(Len(WrittenBuf))

SuccessiveWrites ==
    IF scenario = "sink" THEN {k \in 1..(Len(sent) - 1) : TRUE} ELSE {}

NameArg == sent[1].data

HasNul(s) == \E j \in 1..Len(s) : s[j] = 0

NameMade(kinds) ==
    /\ scenario = "header"
    /\ sent # <<>>
    /\ sent[1].kind \in kinds
    /\ received = <<>>

\* C22: making a method name from a string yields no value for every string
\* longer than 11 bytes or holding a NUL byte, and a value for every other
\* string, the empty string and strings of 11 bytes among them.
C22_NameConstruction ==
    NameMade({"to_name", "encode"}) =>
        IF Len(NameArg) > 11 \/ HasNul(NameArg)
        THEN lastRet.kind \in {"none", "err"}
        ELSE lastRet.kind = "ok"

\* C23: set_name with a name longer than 11 bytes stores the first 11 bytes
\* of the name and completes normally; with a name of at most 11 bytes it
\* stores the name followed by NUL padding.
C23_SetNameSlices ==
    NameMade({"set_name"}) =>
        /\ lastRet.kind = "ok"
        /\ the_header.name =
              [j \in 1..11 |-> IF j <= Len(NameArg) THEN NameArg[j] ELSE 0]

\* C24: for every NUL-free string s of at most 11 bytes, the 11-byte field
\* set_name(s) stores is s followed only by NUL bytes, and name() then
\* returns s.
C24_NameRoundTrip ==
    (/\ scenario = "header"
     /\ sent # <<>>
     /\ sent[1].kind = "set_name"
     /\ Len(NameArg) <= 11
     /\ ~HasNul(NameArg)) =>
        /\ Take(the_header.name, Len(NameArg)) = NameArg
        /\ \A j \in (Len(NameArg) + 1)..11 : the_header.name[j] = 0
        /\ received # <<>> => received[1] = RetOk(NameArg)

C24_Witness ==
    /\ scenario = "header"
    /\ sent = <<[kind |-> "set_name", data |-> Take(NameLong, 11)]>>
    /\ received = <<RetOk(Take(NameLong, 11))>>

(***************************************************************************)
(* C29, C30: commands written to and read from a stream.                   *)
(***************************************************************************)
\* bytes is one frame per command of list: a head whose data_size field is
\* the length of the command's data, then that data, and nothing else.
RECURSIVE WellFramed(_, _)
WellFramed(bytes, list) ==
    IF list = <<>> THEN bytes = <<>>
    ELSE LET n == Len(Head(list).data)
         IN  /\ Len(bytes) >= 22 + n
             /\ SignedFromLeBytes(SubSeq(bytes, 19, 22)) = n
             /\ SubSeq(bytes, 1, 18) = Take(Header_serialize(Head(list).header), 18)
             /\ SubSeq(bytes, 23, 22 + n) = Head(list).data
             /\ WellFramed(Drop(bytes, 22 + n), Tail(list))

\* C29: for every command passed to write_commmand or write_all_command, one
\* whose data_size differs from the length of its data included, each frame
\* written has a data_size field equal to the number of payload bytes that
\* follow it and no padding, and the call returns the number of bytes
\* written to the transport.
C29_WrittenFrames ==
    scenario = "processor" =>
        \A k \in 1..Len(sent) :
            sent[k].kind \in {"write_commmand", "write_all_command"} =>
                /\ WellFramed(sent[k].bytes, sent[k].list)
                /\ sent[k].ret = Len(sent[k].bytes)

\* C30: read_command applied to the output of write_command(c), where
\* c.header.data_size is the length of c.data, consumes 22 + data_size bytes
\* and returns c.
C30_ReadWritten ==
    (/\ scenario = "processor"
     /\ sent # <<>>
     /\ sent[1].kind = "write_command"
     /\ sent[1].list[1].header.data_size = Len(sent[1].list[1].data)
     /\ received # <<>>) =>
        /\ received[1].ret = RetOk(sent[1].list[1])
        /\ received[1].consumed = 22 + sent[1].list[1].header.data_size

(***************************************************************************)
(* C25: the handshake and the commands through both processors.            *)
(***************************************************************************)
\* C25: after the client has written a command c (data_size the length of
\* its data) through its processor, the server's processor, calling
\* read_commmand repeatedly while the transport delivers the client's bytes
\* in any chunking, eventually returns Some(c).
C25_Integration ==
    (scenario = "integration" /\ sent # <<>>)
        ~> (received # <<>> /\ received[1] = sent[1].command)


(***************************************************************************)
(* Properties of the channel connection.                                   *)
(***************************************************************************)
\* The command the last process() read and the channel recorded for it.
LastRead == received[1]

\* C26: Response routing.  When process() reads a command whose header id
\* is recorded for a request of channel X, no channel other than X receives
\* anything; X sent a request with that id; the record is removed; and X,
\* if it is attached with its user side alive, receives the command once and
\* process() returns Ok.
C26_ResponseRoutingStep ==
    (Net_process("WouldBlock") /\ received' # <<>> /\ received'[1].routed # None) =>
        LET X == received'[1].routed.value
            command == received'[1].command
        IN  /\ \E i \in 1..Len(sent) :
                   /\ sent[i].channel = X
                   /\ sent[i].command.header.id = command.header.id
            /\ command.header.id \notin DOMAIN command_channel'
            /\ DOMAIN channel_map' = DOMAIN channel_map
            /\ \A Y \in DOMAIN channel_map \ {X} :
                   channel_map'[Y].sender = channel_map[Y].sender
            /\ (X \in DOMAIN channel_map /\ channel_map[X].connected) =>
                   /\ channel_map'[X].sender = Append(channel_map[X].sender, command)
                   /\ lastRet' = RetOk(<<>>)
            /\ (X \in DOMAIN channel_map /\ ~channel_map[X].connected) =>
                   /\ channel_map'[X].sender = channel_map[X].sender
                   /\ lastRet' = RetErr("Channel")

C26_ResponseRouting == [][C26_ResponseRoutingStep]_vars

\* With two channels attached, process() has read the response to a request
\* of channel 0 and delivered it to channel 0 alone.
C26_Witness ==
    /\ scenario = "network"
    /\ received # <<>>
    /\ LastRead.routed = Some(0)
    /\ DOMAIN channel_map = {0, 1}
    /\ channel_map[1].connected
    /\ channel_map[0].sender = <<LastRead.command>>
    /\ channel_map[1].sender = <<>>
    /\ lastRet = RetOk(<<>>)

\* C27: Broadcast.  When process() reads a command whose header id has no
\* recorded sender, every channel attached at that moment whose user side is
\* alive receives one copy of it.
C27_BroadcastStep ==
    (Net_process("WouldBlock") /\ received' # <<>> /\ received'[1].routed = None) =>
        \A Y \in DOMAIN channel_map :
            channel_map[Y].connected =>
                channel_map'[Y].sender = Append(channel_map[Y].sender, received'[1].command)

C27_Broadcast == [][C27_BroadcastStep]_vars


(***************************************************************************)
(* Properties of the command codec.                                        *)
(***************************************************************************)
\* C28: The codec holds its read state.  Whatever parts the frames arrive
\* in and whatever read() calls failed with WouldBlock in between, the
\* commands read() returns are the commands written, in order and unchanged;
\* and once every byte written has arrived, read() fails only after it has
\* returned all of them.
C28_HoldsReadState ==
    scenario = "codec" =>
        /\ Len(received) <= Len(sent)
        /\ \A i \in 1..Len(received) : received[i] = sent[i].command
        /\ (in_flight = <<>> /\ lastRet.kind = "err") => Len(received) = Len(sent)


(***************************************************************************)
(* Properties of the stream adapters over empty packets, short reads and   *)
(* interrupted calls.                                                      *)
(***************************************************************************)
\* bytes begin with a whole secure packet: the head and the data it
\* announces.
WholePacketAt(bytes) ==
    /\ Len(bytes) >= SECURE_HEAD_SIZE
    /\ Len(bytes) >= 4 + U32FromLeBytes(SubSeq(bytes, 1, 4))

\* C33: Adapter read repeats over empty packets.  A read into a non-empty
\* buffer returns 0 only when no further complete packet has reached the
\* reading end: after a read that returned 0, neither the transport (for
\* secure/stream.rs) nor the bytes taken from it and not yet decrypted (for
\* io.rs) begin with a whole packet.
C33_RepeatsOverEmpty ==
    (scenario \in {"adapter", "legacy_stream"} /\ lastRet = RetOk(0)) =>
        /\ scenario = "adapter" => ~(current_read = None /\ WholePacketAt(transport))
        /\ scenario = "legacy_stream" =>
               ~(legacy_current = None /\ WholePacketAt(legacy_read_buffer \o transport))


\* The number of bytes the server's stream has taken from the transport.
ServerTaken == moved - Len(transport)

\* C34: SecureServerStream.read completes the handshake for any
\* fragmentation.  Until the handshake is done the bytes taken from the
\* transport by earlier calls are all held in the handshake buffer, none of
\* them beyond the 268 bytes of the preamble, and once 268 bytes were taken
\* handshaked is true.
C34_FragmentedHandshake ==
    scenario = "integration" =>
        /\ ~server_handshaked =>
               /\ ServerTaken < SERVER_HANDSHAKE_SIZE
               /\ ServerTaken = IF server_handshake = None THEN 0
                                ELSE Len(server_handshake.value)
        /\ ServerTaken >= SERVER_HANDSHAKE_SIZE => server_handshaked


\* C38: Routing under id collision.  A response that is already in the
\* stream when process() is called answers a request written before: it is
\* delivered to the channel recorded for its header id at that moment, when
\* that channel is attached with its user side alive, also when another
\* channel has a request with the same id waiting; it is delivered to no
\* other channel and is not broadcast.
C38_IdCollisionStep ==
    (/\ Net_process("WouldBlock")
     /\ transport # <<>>
     /\ received' # <<>>
     /\ received'[1].command.header.id \in DOMAIN command_channel) =>
        LET command == received'[1].command
            A == command_channel[command.header.id]
        IN  (A \in DOMAIN channel_map /\ channel_map[A].connected) =>
                /\ received'[1].routed = Some(A)
                /\ channel_map'[A].sender = Append(channel_map[A].sender, command)
                /\ \A B \in DOMAIN channel_map \ {A} :
                       channel_map'[B].sender = channel_map[B].sender

C38_IdCollision == [][C38_IdCollisionStep]_vars


\* C37: The command built by encode reflects the builder's configuration:
\* the header carries the builder's id, the status set through set_status
\* and the data_type set through set_data_type, the method name NUL-padded
\* and truncated to 11 bytes, and data_size is the length of the payload.
C37_BuilderConfig ==
    NameMade({"build"}) =>
        /\ lastRet.kind = "ok"
        /\ lastRet.value.data = sent[1].payload
        /\ lastRet.value.header =
              [id |-> sent[1].builder.id,
               status |-> sent[1].builder.status,
               name |-> [j \in 1..11 |-> IF j <= Len(NameArg) THEN NameArg[j] ELSE 0],
               data_type |-> sent[1].builder.data_type,
               data_size |-> Len(sent[1].payload)]


(***************************************************************************)
(* Properties of read_all_command.                                         *)
(***************************************************************************)
\* C36: read_all_command never loses a command: the commands the processor
\* removed from its read buffer are, in order, the commands the calls
\* delivered to the caller, also when a read of the stream failed with
\* WouldBlock after commands were parsed during the same call.
C36_NoCommandLost ==
    scenario = "read_all" =>
        /\ moved <= Len(sent)
        /\ received = [j \in 1..moved |-> sent[j]]


(***************************************************************************)
(* Properties of SecureClientStream::write over failing writes.            *)
(***************************************************************************)
\* C35: when a call of SecureClientStream.write fails to write the handshake
\* preamble, handshaked stays false and the call writes no byte of a secure
\* packet; handshaked becomes true only in a call that wrote the whole
\* preamble; and a call made with handshaked true writes no handshake byte
\* and leaves handshaked true.
C35_HandshakeWriteFailure ==
    scenario = "failing_client" =>
        /\ legacy_handshaked = (sent # <<>> /\ sent[Len(sent)].handshaked)
        /\ \A j \in 1..Len(sent) :
              \E c \in {sent[j]} :
              \E whole \in {c.preamble} :
                  /\ Len(whole) = SECURE_HANDSHAKE_HEAD_SIZE + LegacyKeyLen
                  /\ c.was_handshaked = (j > 1 /\ sent[j - 1].handshaked)
                  /\ (~c.was_handshaked /\ c.handshake # whole) =>
                         /\ ~c.handshaked
                         /\ c.packet = <<>>
                         /\ c.ret.kind = "err"
                  /\ (~c.was_handshaked /\ c.handshaked) => c.handshake = whole
                  /\ c.was_handshaked => (c.handshake = <<>> /\ c.handshaked)

\* A call failed after a part of the preamble was written, and the next call
\* wrote the whole preamble and a packet.
C35_Witness ==
    /\ scenario = "failing_client"
    /\ Len(sent) = 2
    /\ sent[1].handshake # <<>>
    /\ sent[1].handshake # sent[1].preamble
    /\ ~sent[1].handshaked
    /\ sent[2].handshake = sent[2].preamble
    /\ sent[2].handshaked
    /\ sent[2].packet # <<>>
    /\ sent[2].ret.kind = "ok"


(***************************************************************************)
(* Properties of write_packet over interrupted writes.                     *)
(***************************************************************************)
\* The packets of the calls made with no packet pending, one after the other.
RECURSIVE StartedPackets(_)
StartedPackets(calls) ==
    IF calls = <<>> THEN <<>>
    ELSE StartedPackets(Take(calls, Len(calls) - 1))
             \o (IF calls[Len(calls)].pending THEN <<>>
                 ELSE SecureStream_write_packet(crypto, calls[Len(calls)].data,
                                                calls[Len(calls)].iv).bytes)

\* The call that made the packet which was current during call j.
RECURSIVE StarterOf(_)
StarterOf(j) == IF sent[j].pending THEN StarterOf(j - 1) ELSE j

\* No byte of a packet is interleaved with another packet, duplicated or
\* skipped: the stream holds the packets of the calls that started one, in
\* call order, the last of them up to where its writing stopped.
WireIsPackets ==
    \E whole \in {StartedPackets(sent)} :
        /\ Len(in_flight) <= Len(whole)
        /\ in_flight = Take(whole, Len(in_flight))
        /\ (current_write = None) = (Len(in_flight) = Len(whole))

\* C39: packets are atomic on the wire over interrupted writes: the next
\* call completes the pending packet from where it stopped, the stream never
\* gets bytes of two packets interleaved nor a duplicated or skipped byte,
\* and every call that reports success completed a packet carrying that
\* call's input and reports that input's length.
C39_AtomicPackets ==
    scenario = "interrupted_write" =>
        /\ WireIsPackets
        /\ \A j \in 1..Len(sent) :
              sent[j].ret.kind = "ok" =>
                  /\ sent[StarterOf(j)].data = sent[j].data
                  /\ sent[j].ret.value = Len(sent[j].data)


(***************************************************************************)
(* Properties of the packet readers over partial reads.                    *)
(***************************************************************************)
\* The number of bytes of the first n packets written.
RECURSIVE PacketsLen(_)
PacketsLen(n) == IF n = 0 THEN 0 ELSE PacketsLen(n - 1) + Len(sent[n].bytes)

\* C32: the reader keeps its partial progress across WouldBlock errors and
\* partial reads: the bytes it took from the stream are the bytes of the
\* packets it returned and the bytes it holds of the packet under way, and
\* the packets returned are, in order, the decryptions of the packets
\* written.
C32_KeepsProgress ==
    scenario = "packet_stream" =>
        /\ Len(received) <= Len(sent)
        /\ \A j \in 1..Len(received) : received[j] = sent[j].data
        /\ Len(received) <= Len(sent) =>
              moved = PacketsLen(Len(received))
                          + (IF current_packet = None THEN 0 ELSE SECURE_HEAD_SIZE)


(***************************************************************************)
(* Properties of read_packet at the end of the stream.                     *)
(***************************************************************************)
\* C31: when the stream reports its end (a read returning 0 bytes) before
\* the head or the data of a packet is complete, read_packet terminates
\* with an error: every call that is under way returns, and a call that
\* returned with the peer's stream closed and the packet incomplete
\* returned an error.
C31_EofTerminates ==
    /\ (scenario = "eof" /\ read_pc = "loop") ~> (read_pc = "idle")
    /\ [](scenario = "eof" /\ read_pc = "idle" /\ PeerClosed /\ current_read # None
              => lastRet.kind = "err")

====
